---- MODULE Spec2Model ----
(***************************************************************************)
(* Model of the transaction-to-balance engine of the personal finance API  *)
(* (backend/src/transactions, backend/src/accounts, backend/src/categories *)
(* and the Prisma repositories).                                           *)
(*                                                                         *)
(* The storage rows are the state.  Every service method is a small state  *)
(* machine whose steps are its storage calls (each `await` of a repository *)
(* method is one step); the synchronous code between two storage calls is  *)
(* folded into the step that precedes it.  Money is counted in half cents: *)
(* the columns are DECIMAL(15,2) / DECIMAL(10,2) and keep whole cents,     *)
(* while the amount of a request is any number >= 0.01 and can carry a     *)
(* third decimal.                                                          *)
(***************************************************************************)
EXTENDS Integers, FiniteSets, Sequences, TLC

VARIABLES accounts, transactions, categories, nextId, calls, initialBalance,
          overwritten, req

vars == <<accounts, transactions, categories, nextId, calls, initialBalance,
          overwritten, req>>

----------------------------------------------------------------------------
(* Bounds *)

\* number of service calls in one behaviour of the sequential specifications
MaxCalls == 2
\* number of service calls in one behaviour of the concurrent specification
MaxConcCalls == 2
\* number of service calls in one behaviour of the access specification
MaxAccessCalls == 2
\* largest transaction amount of a request, in half cents
MaxAmount == 4
\* largest opening balance of the checking account a1, in cents
MaxInitBalance == 2
\* largest (absolute) value sent to the balance-correction endpoint, in cents
MaxSetBalance == 1
\* number of service calls in one behaviour of the query specification
MaxQueryCalls == 3
\* the calendar of the model: months 0..MaxMonth, each SecondsPerMonth long
MaxMonth == 1
SecondsPerMonth == 2
\* number of service calls in one behaviour of the account specification
MaxAccountCalls == 3
\* number of service calls in one behaviour of the category specification
MaxCategoryCalls == 2
\* number of service calls in one behaviour of the race specification
MaxRaceCalls == 3

----------------------------------------------------------------------------
(* Values *)

NULL == "null"

\* one cent, the unit the money columns keep, in half cents
Cent == 2
\* the smallest amount a request may carry: @Min(0.01)
MinAmount == Cent

\* instants are counted in half seconds: transactionDate is a TIMESTAMP(3)
\* and tells instants of one second apart
TicksPerSecond == 2
MonthLength == SecondsPerMonth * TicksPerSecond
Instants == 0..((MaxMonth + 1) * MonthLength - 1)
\* `new Date()`: the clock reading, which does not advance in a behaviour
Now == MaxMonth * MonthLength + 1
\* no date (an optional date that the request does not carry)
NoDate == 0 - 1
\* no sum computed yet
NoSum == 0 - 1

Users == {"u1", "u2"}

\* rows of the accounts table present in the initial state
AccountIds == {"a1", "a2", "a3"}
\* an account id that no row has
MissingAccountId == "a0"
\* rows of the Category table present in the initial state
CategoryIds == {"c1", "c2"}
\* a category id that no row has
MissingCategoryId == "c0"

INCOME == "income"
EXPENSE == "expense"
TRANSFER == "transfer"
TransactionType == {INCOME, EXPENSE, TRANSFER}

CHECKING == "checking"
SAVINGS == "savings"
CREDIT == "credit"
CASH == "cash"

\* outcomes of a service call
OK == "ok"
NotFound == "NotFoundException"
Forbidden == "ForbiddenException"
BadRequest == "BadRequestException"
StorageError == "PrismaClientKnownRequestError"
Pending == "pending"

Procs == {1, 2}

\* `null` results of findById
NoAccount ==
  [userId |-> NULL, name |-> NULL, accountType |-> NULL, balance |-> 0,
   isActive |-> FALSE]
NoTransaction ==
  [userId |-> NULL, accountId |-> NULL, categoryId |-> NULL, type |-> NULL,
   amount |-> 0, transactionDate |-> NoDate, toAccountId |-> NULL,
   fromAccountId |-> NULL]
NoCategory == [userId |-> NULL, name |-> NULL, isActive |-> FALSE]

NoDto ==
  [id |-> 0, accountId |-> NULL, toAccountId |-> NULL, categoryId |-> NULL,
   type |-> NULL, amount |-> 0, balance |-> 0, name |-> NULL,
   transactionDate |-> NoDate, dateFrom |-> NoDate, dateTo |-> NoDate,
   month |-> 0]

NoSnapshot == [accounts |-> <<>>, transactions |-> <<>>, categories |-> <<>>]

\* the result of getMonthlyTotals before its sums are known
NoStats == [income |-> NoSum, expense |-> NoSum, net |-> 0]

IdleReq ==
  [pc |-> "idle", op |-> NULL, userId |-> NULL, dto |-> NoDto,
   account |-> NoAccount, toAccount |-> NoAccount,
   transaction |-> NoTransaction, result |-> Pending, newId |-> 0,
   list |-> <<>>, stats |-> NoStats,
   pre |-> NoSnapshot, follows |-> FALSE, createPre |-> <<>>,
   overlapped |-> FALSE, repeats |-> FALSE, prevStats |-> NoStats]

----------------------------------------------------------------------------
(* Entities *)

\* (a variant that accepts every caller)
isOwnedBy_AnyUser(entity, userId) == entity.userId # NULL

\* Account.isOwnedBy / Transaction.isOwnedBy / Category.isOwnedBy
isOwnedBy(entity, userId) == entity.userId = userId

\* (a variant that refuses a negative balance on a credit account too)
updateBalanceThrows_AnyType(account, newBalance) == newBalance < 0

\* Account.updateBalance: the entity-level check; TRUE when it throws
updateBalanceThrows(account, newBalance) ==
  newBalance < 0 /\ account.accountType # CREDIT

\* (a variant that records the destination whatever the type)
TransactionCreate_KeepDestination(userId, accountId, type, amount, categoryId, transactionDate, toAccountId) ==
  [userId |-> userId, accountId |-> accountId, categoryId |-> categoryId,
   type |-> type, amount |-> amount,
   transactionDate |->
     IF transactionDate = NoDate THEN Now ELSE transactionDate,
   toAccountId |-> toAccountId,
   fromAccountId |-> IF type = TRANSFER THEN accountId ELSE NULL]

\* Transaction.create
TransactionCreate(userId, accountId, type, amount, categoryId, transactionDate, toAccountId) ==
  [userId |-> userId, accountId |-> accountId, categoryId |-> categoryId,
   type |-> type, amount |-> amount,
   transactionDate |->
     IF transactionDate = NoDate THEN Now ELSE transactionDate,
   toAccountId |-> IF type = TRANSFER THEN toAccountId ELSE NULL,
   fromAccountId |-> IF type = TRANSFER THEN accountId ELSE NULL]

isExpense(t) == t.type = EXPENSE
isIncome(t) == t.type = INCOME
isTransfer(t) == t.type = TRANSFER

----------------------------------------------------------------------------
(* Repositories *)

\* PrismaAccountRepository.findById
AccountFindById(accts, id) ==
  IF id \in DOMAIN accts THEN accts[id] ELSE NoAccount

\* what a DECIMAL(_,2) column keeps of the number written to it: the number
\* itself when it is whole cents, otherwise the number rounded to cents.  A
\* number half-way between two cents reaches the column as the double next to
\* it (0.02 - 0.015 is 0.005000000000000001, 0.01 - 0.015 is
\* -0.004999999999999999), so it is stored as one of its two neighbours.
DecimalColumn(x) == IF x % Cent = 0 THEN {x} ELSE {x - 1, x + 1}

\* PrismaAccountRepository.updateBalance: one UPDATE of the balance column;
\* a missing row makes Prisma throw, which is caught and turned into null.
\* The tables the call can leave.
AccountUpdateBalance(accts, id, newBalance) ==
  IF id \in DOMAIN accts
    THEN { [accts EXCEPT ![id].balance = stored] :
             stored \in DecimalColumn(newBalance) }
    ELSE {accts}

\* PrismaAccountRepository.update
AccountUpdate(accts, id, field, value) ==
  IF id \in DOMAIN accts
    THEN [accts EXCEPT ![id][field] = value]
    ELSE accts

\* PrismaAccountRepository.existsByUserIdAndName
AccountExistsByUserIdAndName(accts, userId, name, excludeId) ==
  \E a \in DOMAIN accts :
    /\ accts[a].userId = userId
    /\ accts[a].name = name
    /\ accts[a].isActive
    /\ a # excludeId

\* PrismaTransactionRepository.findById
TransactionFindById(txs, id) ==
  IF id \in DOMAIN txs THEN txs[id] ELSE NoTransaction

\* the foreign keys of the Transaction table: accountId -> accounts.id and
\* categoryId -> Category.id (nullable); toAccountId/fromAccountId have none
TransactionForeignKeysHold(accts, cats, data) ==
  /\ data.accountId \in DOMAIN accts
  /\ data.categoryId = NULL \/ data.categoryId \in DOMAIN cats

\* PrismaTransactionRepository.save (the INSERT, once the keys hold): the
\* tables the call can leave
TransactionSave(txs, id, data) ==
  { [i \in DOMAIN txs \cup {id} |->
       IF i = id THEN [data EXCEPT !.amount = stored] ELSE txs[i]] :
    stored \in DecimalColumn(data.amount) }

\* PrismaTransactionRepository.delete: a missing row is caught, returns false
TransactionDelete(txs, id) ==
  [i \in DOMAIN txs \ {id} |-> txs[i]]

\* PrismaTransactionRepository.update: the UPDATE throws (caught, null) when
\* the row is missing or the new categoryId references no Category row
TransactionUpdateFails(txs, cats, id, data) ==
  \/ id \notin DOMAIN txs
  \/ data.categoryId # NULL /\ data.categoryId \notin DOMAIN cats

\* (a variant that writes every property of the request, the amount included)
TransactionUpdate_WritesAmount(txs, cats, id, data) ==
  IF TransactionUpdateFails(txs, cats, id, data)
    THEN txs
    ELSE [txs EXCEPT
            ![id].categoryId =
               IF data.categoryId = NULL THEN @ ELSE data.categoryId,
            ![id].transactionDate =
               IF data.transactionDate = NoDate THEN @
               ELSE data.transactionDate,
            ![id].amount = data.amount]

\* a field the data does not carry (undefined) is left as it is
TransactionUpdate(txs, cats, id, data) ==
  IF TransactionUpdateFails(txs, cats, id, data)
    THEN txs
    ELSE [txs EXCEPT
            ![id].categoryId =
               IF data.categoryId = NULL THEN @ ELSE data.categoryId,
            ![id].transactionDate =
               IF data.transactionDate = NoDate THEN @
               ELSE data.transactionDate]

\* the filters of a getAccountTransactions call: {userId, accountId}
NoFilters ==
  [userId |-> NULL, accountId |-> NULL, categoryId |-> NULL, type |-> NULL,
   dateFrom |-> NoDate, dateTo |-> NoDate]

\* (a variant whose account filter looks at accountId only)
FiltersMatch_SourceOnly(t, filters) ==
  /\ t.userId = filters.userId
  /\ filters.accountId # NULL => t.accountId = filters.accountId
  /\ filters.categoryId # NULL => t.categoryId = filters.categoryId
  /\ filters.type # NULL => t.type = filters.type
  /\ filters.dateFrom # NoDate => t.transactionDate >= filters.dateFrom
  /\ filters.dateTo # NoDate => t.transactionDate <= filters.dateTo

\* the WHERE clause of findByFilters: every filter that is supplied must hold
FiltersMatch(t, filters) ==
  /\ t.userId = filters.userId
  /\ filters.accountId # NULL =>
       (t.accountId = filters.accountId \/ t.toAccountId = filters.accountId)
  /\ filters.categoryId # NULL => t.categoryId = filters.categoryId
  /\ filters.type # NULL => t.type = filters.type
  /\ filters.dateFrom # NoDate => t.transactionDate >= filters.dateFrom
  /\ filters.dateTo # NoDate => t.transactionDate <= filters.dateTo

\* PrismaTransactionRepository.findByFilters: the lists the query can return,
\* the selected rows (their ids) ordered by transactionDate descending; rows
\* of one date come in any order
TransactionFindByFilters(txs, filters) ==
  LET ids == { i \in DOMAIN txs : FiltersMatch(txs[i], filters) }
      n == Cardinality(ids)
  IN { s \in [1..n -> ids] :
         /\ \A j, k \in 1..n : j # k => s[j] # s[k]
         /\ \A j, k \in 1..n :
              j < k => txs[s[j]].transactionDate >= txs[s[k]].transactionDate }

\* _sum: { amount: true } over the rows ids of txs (0 for no row)
RECURSIVE SumAmounts(_, _)
SumAmounts(txs, ids) ==
  IF ids = {} THEN 0
  ELSE LET i == CHOOSE x \in ids : TRUE
       IN txs[i].amount + SumAmounts(txs, ids \ {i})

\* (a variant that sums the rows of every type)
TransactionGetSumByType_AnyType(txs, userId, type, dateFrom, dateTo) ==
  SumAmounts(txs, { i \in DOMAIN txs :
                     /\ txs[i].userId = userId
                     /\ txs[i].transactionDate >= dateFrom
                     /\ txs[i].transactionDate <= dateTo })

\* PrismaTransactionRepository.getSumByType, called with both dates
TransactionGetSumByType(txs, userId, type, dateFrom, dateTo) ==
  SumAmounts(txs, { i \in DOMAIN txs :
                     /\ txs[i].userId = userId
                     /\ txs[i].type = type
                     /\ txs[i].transactionDate >= dateFrom
                     /\ txs[i].transactionDate <= dateTo })

\* getMonthlyTotals: new Date(year, month - 1, 1), the first instant of the
\* month, and new Date(year, month, 0, 23, 59, 59), the first instant of its
\* last second
startDate(month) == month * MonthLength
endDate(month) == (month + 1) * MonthLength - TicksPerSecond

\* PrismaCategoryRepository.findById
CategoryFindById(cats, id) ==
  IF id \in DOMAIN cats THEN cats[id] ELSE NoCategory

\* the `insensitive` mode of the name comparison
Lower(name) == IF name = "K1" THEN "k1" ELSE IF name = "K2" THEN "k2" ELSE name

\* PrismaCategoryRepository.existsByUserIdAndName
CategoryExistsByUserIdAndName(cats, userId, name, excludeId) ==
  \E c \in DOMAIN cats :
    /\ cats[c].userId = userId
    /\ Lower(cats[c].name) = Lower(name)
    /\ cats[c].isActive
    /\ c # excludeId

\* PrismaCategoryRepository.update: the UPDATE throws (caught, null) when the
\* row is missing, when the new userId is no users.id (Category_userId_fkey)
\* or when (userId, name) is taken (Category_userId_name_key)
CategoryUpdateFails(cats, id, data) ==
  \/ id \notin DOMAIN cats
  \/ data.userId \notin Users
  \/ \E c \in DOMAIN cats \ {id} :
       cats[c].userId = data.userId /\ cats[c].name = data.name

CategoryUpdate(cats, id, data) ==
  IF CategoryUpdateFails(cats, id, data) THEN cats
  ELSE [cats EXCEPT ![id] = data]

----------------------------------------------------------------------------
(* Initial state: two users, u1 with a checking and a credit account, u2   *)
(* with a savings account, one category each, no transaction yet.          *)

Init ==
  /\ \E b \in 1..MaxInitBalance :
       accounts =
         [a \in AccountIds |->
            IF a = "a1"
              THEN [userId |-> "u1", name |-> "n1", accountType |-> CHECKING,
                    balance |-> b * Cent, isActive |-> TRUE]
            ELSE IF a = "a2"
              THEN [userId |-> "u1", name |-> "n2", accountType |-> CREDIT,
                    balance |-> 0, isActive |-> TRUE]
              ELSE [userId |-> "u2", name |-> "n1", accountType |-> SAVINGS,
                    balance |-> Cent, isActive |-> TRUE]]
  /\ transactions = <<>>
  /\ categories =
       [c \in CategoryIds |->
          [userId |-> IF c = "c1" THEN "u1" ELSE "u2", name |-> "k1",
           isActive |-> TRUE]]
  /\ nextId = 1
  /\ calls = 0
  /\ initialBalance = [a \in AccountIds |-> accounts[a].balance]
  /\ overwritten = FALSE
  /\ req = [p \in Procs |-> IdleReq]

----------------------------------------------------------------------------
(* Calls.  A call of process p starts when p is not inside another call;   *)
(* `others` are the processes that must be outside a call as well (all of  *)
(* them when calls are served one after another, none when they overlap).  *)

Running(p) == req[p].pc \notin {"idle", "done"}

Snapshot ==
  [accounts |-> accounts, transactions |-> transactions,
   categories |-> categories]

\* (bookkeeping in a request record: `pre` is the storage when the call
\* started, `overlapped` whether another call was in progress during it,
\* `follows`/`createPre` whether a deleteTransaction directly follows the
\* createTransaction of its transaction, and the accounts before that create,
\* `repeats`/`prevStats` whether a getMonthlyStats directly follows a
\* successful one with the same arguments, and the result of that one)

\* TRUE when the call that p finished last is the successful createTransaction
\* that produced transaction id
JustCreated(p, id) ==
  /\ req[p].pc = "done"
  /\ req[p].op = "createTransaction"
  /\ req[p].result = OK
  /\ req[p].newId = id

\* TRUE when the call that p finished last is a successful getMonthlyStats
\* of userId with the arguments of dto
SameStatsCall(p, userId, dto) ==
  /\ req[p].pc = "done"
  /\ req[p].op = "getMonthlyStats"
  /\ req[p].result = OK
  /\ req[p].userId = userId
  /\ req[p].dto = dto

Begin(p, others, limit, op, userId, dto, pc) ==
  /\ calls < limit
  /\ ~Running(p)
  /\ \A q \in others : ~Running(q)
  /\ calls' = calls + 1
  /\ req' = [q \in Procs |->
       IF q = p
         THEN [IdleReq EXCEPT !.pc = pc, !.op = op, !.userId = userId,
                 !.dto = dto, !.pre = Snapshot,
                 !.follows = (op = "deleteTransaction" /\ JustCreated(p, dto.id)),
                 !.createPre =
                    IF op = "deleteTransaction" /\ JustCreated(p, dto.id)
                      THEN req[p].pre.accounts ELSE <<>>,
                 !.overlapped = (\E o \in Procs \ {p} : Running(o)),
                 !.repeats = (op = "getMonthlyStats" /\ SameStatsCall(p, userId, dto)),
                 !.prevStats =
                    IF op = "getMonthlyStats" /\ SameStatsCall(p, userId, dto)
                      THEN req[p].stats ELSE NoStats]
       ELSE IF Running(q) THEN [req[q] EXCEPT !.overlapped = TRUE]
       ELSE req[q]]
  /\ UNCHANGED <<accounts, transactions, categories, nextId, initialBalance,
                 overwritten>>

\* the call of p ends with result r
Return(p, r) == [req EXCEPT ![p].pc = "done", ![p].result = r]

Goto(p, pc) == [req EXCEPT ![p].pc = pc]

----------------------------------------------------------------------------
(* TransactionService.createTransaction *)

\* requests: accountId over `accts`, destination over `tos`, category over
\* `cats`; a request that is not a transfer carries no toAccountId
CreateTransactionDtos(accts, tos, cats) ==
  { [NoDto EXCEPT !.accountId = a, !.type = t, !.amount = m,
                  !.toAccountId = to, !.categoryId = c] :
      a \in accts, t \in {INCOME, EXPENSE}, m \in MinAmount..MaxAmount,
      to \in {NULL}, c \in cats }
  \cup
  { [NoDto EXCEPT !.accountId = a, !.type = t, !.amount = m,
                  !.toAccountId = to, !.categoryId = c] :
      a \in accts, t \in {TRANSFER}, m \in MinAmount..MaxAmount,
      to \in tos, c \in cats }

createTransaction(p, others, limit, users, dtos) ==
  \E userId \in users, dto \in dtos :
    Begin(p, others, limit, "createTransaction", userId, dto, "ct_findAccount")

\* (a variant that does not test whether a transfer names a destination)
ct_findAccount_NoDestinationCheck(p) ==
  /\ req[p].pc = "ct_findAccount"
  /\ LET account == AccountFindById(accounts, req[p].dto.accountId)
         r == [req EXCEPT ![p].account = account]
     IN req' =
          IF account = NoAccount \/ ~isOwnedBy(account, req[p].userId)
            THEN [r EXCEPT ![p].pc = "done", ![p].result = Forbidden]
          ELSE IF req[p].dto.type = TRANSFER
            THEN [r EXCEPT ![p].pc = "ct_findToAccount"]
            ELSE [r EXCEPT ![p].pc = "ct_updateBalance"]
  /\ UNCHANGED <<accounts, transactions, categories, nextId, calls,
                 initialBalance, overwritten>>

\* findById(dto.accountId) and the checks up to the next storage call
ct_findAccount(p) ==
  /\ req[p].pc = "ct_findAccount"
  /\ LET account == AccountFindById(accounts, req[p].dto.accountId)
         r == [req EXCEPT ![p].account = account]
     IN req' =
          IF account = NoAccount \/ ~isOwnedBy(account, req[p].userId)
            THEN [r EXCEPT ![p].pc = "done", ![p].result = Forbidden]
          ELSE IF req[p].dto.type = TRANSFER
            THEN IF req[p].dto.toAccountId = NULL
                   THEN [r EXCEPT ![p].pc = "done", ![p].result = BadRequest]
                   ELSE [r EXCEPT ![p].pc = "ct_findToAccount"]
            ELSE [r EXCEPT ![p].pc = "ct_updateBalance"]
  /\ UNCHANGED <<accounts, transactions, categories, nextId, calls,
                 initialBalance, overwritten>>

\* (a variant that looks the destination up and does not check its owner)
ct_findToAccount_Unchecked(p) ==
  /\ req[p].pc = "ct_findToAccount"
  /\ req' = [req EXCEPT
               ![p].toAccount = AccountFindById(accounts, req[p].dto.toAccountId),
               ![p].pc = "ct_updateSource"]
  /\ UNCHANGED <<accounts, transactions, categories, nextId, calls,
                 initialBalance, overwritten>>

\* findById(dto.toAccountId) and its ownership check
ct_findToAccount(p) ==
  /\ req[p].pc = "ct_findToAccount"
  /\ LET toAccount == AccountFindById(accounts, req[p].dto.toAccountId)
         r == [req EXCEPT ![p].toAccount = toAccount]
     IN req' =
          IF toAccount = NoAccount \/ ~isOwnedBy(toAccount, req[p].userId)
            THEN [r EXCEPT ![p].pc = "done", ![p].result = Forbidden]
            ELSE [r EXCEPT ![p].pc = "ct_updateSource"]
  /\ UNCHANGED <<accounts, transactions, categories, nextId, calls,
                 initialBalance, overwritten>>

\* the balances the transfer branch writes: source, then destination
TransferSourceBalance(account, amount) == account.balance - amount
TransferDestBalance(toAccount, amount) == toAccount.balance + amount

\* transfer: updateBalance(dto.accountId, account.getBalance() - dto.amount)
ct_updateSource(p) ==
  /\ req[p].pc = "ct_updateSource"
  /\ accounts' \in AccountUpdateBalance(accounts, req[p].dto.accountId,
                    TransferSourceBalance(req[p].account, req[p].dto.amount))
  /\ req' = Goto(p, "ct_updateDest")
  /\ UNCHANGED <<transactions, categories, nextId, calls, initialBalance,
                 overwritten>>

\* transfer: updateBalance(dto.toAccountId, toAccount.getBalance() + dto.amount)
ct_updateDest(p) ==
  /\ req[p].pc = "ct_updateDest"
  /\ accounts' \in AccountUpdateBalance(accounts, req[p].dto.toAccountId,
                    TransferDestBalance(req[p].toAccount, req[p].dto.amount))
  /\ req' = Goto(p, "ct_save")
  /\ UNCHANGED <<transactions, categories, nextId, calls, initialBalance,
                 overwritten>>

\* the balance the expense / income branch writes
CreateNewBalance(account, type, amount) ==
  IF type = EXPENSE THEN account.balance - amount
                    ELSE account.balance + amount

\* expense / income: updateBalance(dto.accountId, account.getBalance() -/+ amount)
ct_updateBalance(p) ==
  /\ req[p].pc = "ct_updateBalance"
  /\ accounts' \in AccountUpdateBalance(accounts, req[p].dto.accountId,
                    CreateNewBalance(req[p].account, req[p].dto.type,
                                     req[p].dto.amount))
  /\ req' = Goto(p, "ct_save")
  /\ UNCHANGED <<transactions, categories, nextId, calls, initialBalance,
                 overwritten>>

\* Transaction.create and transactionRepo.save; a foreign-key violation makes
\* the INSERT throw and the call reject
ct_save(p) ==
  /\ req[p].pc = "ct_save"
  /\ LET data == TransactionCreate(req[p].userId, req[p].dto.accountId,
                   req[p].dto.type, req[p].dto.amount, req[p].dto.categoryId,
                   req[p].dto.transactionDate, req[p].dto.toAccountId)
     IN IF TransactionForeignKeysHold(accounts, categories, data)
          THEN /\ transactions' \in TransactionSave(transactions, nextId, data)
               /\ nextId' = nextId + 1
               /\ req' = [req EXCEPT ![p].pc = "done", ![p].result = OK,
                                     ![p].newId = nextId]
          ELSE /\ req' = Return(p, StorageError)
               /\ UNCHANGED <<transactions, nextId>>
  /\ UNCHANGED <<accounts, categories, calls, initialBalance, overwritten>>

----------------------------------------------------------------------------
(* TransactionService.getTransaction, the first storage call of            *)
(* getTransaction, updateTransaction and deleteTransaction                 *)

\* (a variant without the ownership check)
GetTransactionCheck_NoOwner(transaction, userId) ==
  IF transaction = NoTransaction THEN NotFound ELSE OK

\* the result of the two checks: NotFound, Forbidden or OK
GetTransactionCheck(transaction, userId) ==
  IF transaction = NoTransaction THEN NotFound
  ELSE IF ~isOwnedBy(transaction, userId) THEN Forbidden
  ELSE OK

TransactionIdDtos(ids) == { [NoDto EXCEPT !.id = i] : i \in ids }

----------------------------------------------------------------------------
(* TransactionService.deleteTransaction *)

deleteTransaction(p, others, limit, users, dtos) ==
  \E userId \in users, dto \in dtos :
    Begin(p, others, limit, "deleteTransaction", userId, dto,
          "dt_getTransaction")

\* getTransaction(id, userId)
dt_getTransaction(p) ==
  /\ req[p].pc = "dt_getTransaction"
  /\ LET transaction == TransactionFindById(transactions, req[p].dto.id)
         check == GetTransactionCheck(transaction, req[p].userId)
         r == [req EXCEPT ![p].transaction = transaction]
     IN req' = IF check = OK
                 THEN [r EXCEPT ![p].pc = "dt_findAccount"]
                 ELSE [r EXCEPT ![p].pc = "done", ![p].result = check]
  /\ UNCHANGED <<accounts, transactions, categories, nextId, calls,
                 initialBalance, overwritten>>

\* (a variant that reports a missing primary account)
dt_findAccount_NotFound(p) ==
  /\ req[p].pc = "dt_findAccount"
  /\ LET t == req[p].transaction
         account == AccountFindById(accounts, t.accountId)
         r == [req EXCEPT ![p].account = account]
     IN req' =
          IF account = NoAccount
            THEN [r EXCEPT ![p].pc = "done", ![p].result = NotFound]
          ELSE IF isExpense(t) \/ isIncome(t)
            THEN [r EXCEPT ![p].pc = "dt_updateBalance"]
          ELSE IF isTransfer(t) /\ t.toAccountId # NULL
            THEN [r EXCEPT ![p].pc = "dt_findToAccount"]
            ELSE [r EXCEPT ![p].pc = "dt_delete"]
  /\ UNCHANGED <<accounts, transactions, categories, nextId, calls,
                 initialBalance, overwritten>>

\* findById(transaction.accountId) and the branch on the transaction type
dt_findAccount(p) ==
  /\ req[p].pc = "dt_findAccount"
  /\ LET t == req[p].transaction
         account == AccountFindById(accounts, t.accountId)
         r == [req EXCEPT ![p].account = account]
     IN req' =
          IF account = NoAccount THEN [r EXCEPT ![p].pc = "dt_delete"]
          ELSE IF isExpense(t) \/ isIncome(t)
            THEN [r EXCEPT ![p].pc = "dt_updateBalance"]
          ELSE IF isTransfer(t) /\ t.toAccountId # NULL
            THEN [r EXCEPT ![p].pc = "dt_findToAccount"]
            ELSE [r EXCEPT ![p].pc = "dt_delete"]
  /\ UNCHANGED <<accounts, transactions, categories, nextId, calls,
                 initialBalance, overwritten>>

\* transfer: findById(transaction.toAccountId)
dt_findToAccount(p) ==
  /\ req[p].pc = "dt_findToAccount"
  /\ LET toAccount == AccountFindById(accounts, req[p].transaction.toAccountId)
         r == [req EXCEPT ![p].toAccount = toAccount]
     IN req' = IF toAccount = NoAccount
                 THEN [r EXCEPT ![p].pc = "dt_delete"]
                 ELSE [r EXCEPT ![p].pc = "dt_updateSource"]
  /\ UNCHANGED <<accounts, transactions, categories, nextId, calls,
                 initialBalance, overwritten>>

\* the balances the transfer reversal writes: source, then destination
ReverseSourceBalance(account, amount) == account.balance + amount
ReverseDestBalance(toAccount, amount) == toAccount.balance - amount

\* transfer: updateBalance(accountId, account.getBalance() + amount)
dt_updateSource(p) ==
  /\ req[p].pc = "dt_updateSource"
  /\ accounts' \in AccountUpdateBalance(accounts, req[p].transaction.accountId,
                    ReverseSourceBalance(req[p].account,
                                         req[p].transaction.amount))
  /\ req' = Goto(p, "dt_updateDest")
  /\ UNCHANGED <<transactions, categories, nextId, calls, initialBalance,
                 overwritten>>

\* transfer: updateBalance(toAccountId, toAccount.getBalance() - amount)
dt_updateDest(p) ==
  /\ req[p].pc = "dt_updateDest"
  /\ accounts' \in AccountUpdateBalance(accounts, req[p].transaction.toAccountId,
                    ReverseDestBalance(req[p].toAccount,
                                       req[p].transaction.amount))
  /\ req' = Goto(p, "dt_delete")
  /\ UNCHANGED <<transactions, categories, nextId, calls, initialBalance,
                 overwritten>>

\* the balance the expense / income reversal writes
DeleteNewBalance(account, t) ==
  IF isExpense(t) THEN account.balance + t.amount
                  ELSE account.balance - t.amount

\* expense / income: updateBalance(accountId, account.getBalance() +/- amount)
dt_updateBalance(p) ==
  /\ req[p].pc = "dt_updateBalance"
  /\ accounts' \in AccountUpdateBalance(accounts, req[p].transaction.accountId,
                    DeleteNewBalance(req[p].account, req[p].transaction))
  /\ req' = Goto(p, "dt_delete")
  /\ UNCHANGED <<transactions, categories, nextId, calls, initialBalance,
                 overwritten>>

\* transactionRepo.delete(id)
dt_delete(p) ==
  /\ req[p].pc = "dt_delete"
  /\ transactions' = TransactionDelete(transactions, req[p].dto.id)
  /\ req' = Return(p, OK)
  /\ UNCHANGED <<accounts, categories, nextId, calls, initialBalance,
                 overwritten>>

----------------------------------------------------------------------------
(* AccountService.getAccountById, the first storage call of every by-id    *)
(* method of AccountService                                                *)

\* the result of the two checks: NotFound, Forbidden or OK
GetAccountByIdCheck(account, userId) ==
  IF account = NoAccount THEN NotFound
  ELSE IF ~isOwnedBy(account, userId) THEN Forbidden
  ELSE OK

----------------------------------------------------------------------------
(* AccountService.updateAccountBalance *)

\* the balance of a request is whole cents: @IsNumber({ maxDecimalPlaces: 2 })
UpdateBalanceDtos(accts, balances) ==
  { [NoDto EXCEPT !.accountId = a, !.balance = b * Cent] :
      a \in accts, b \in balances }

updateAccountBalance(p, others, limit, users, dtos) ==
  \E userId \in users, dto \in dtos :
    Begin(p, others, limit, "updateAccountBalance", userId, dto,
          "ub_getAccountById")

\* getAccountById(accountId, userId), then account.updateBalance(dto.balance)
\* whose only effect is to throw on an invalid balance
ub_getAccountById(p) ==
  /\ req[p].pc = "ub_getAccountById"
  /\ LET account == AccountFindById(accounts, req[p].dto.accountId)
         check == GetAccountByIdCheck(account, req[p].userId)
         r == [req EXCEPT ![p].account = account]
     IN req' =
          IF check # OK
            THEN [r EXCEPT ![p].pc = "done", ![p].result = check]
          ELSE IF updateBalanceThrows(account, req[p].dto.balance)
            THEN [r EXCEPT ![p].pc = "done", ![p].result = BadRequest]
            ELSE [r EXCEPT ![p].pc = "ub_updateBalance"]
  /\ UNCHANGED <<accounts, transactions, categories, nextId, calls,
                 initialBalance, overwritten>>

\* accountRepository.updateBalance(accountId, dto.balance)
ub_updateBalance(p) ==
  /\ req[p].pc = "ub_updateBalance"
  /\ accounts' \in AccountUpdateBalance(accounts, req[p].dto.accountId,
                                      req[p].dto.balance)
  /\ overwritten' = (overwritten \/ req[p].dto.accountId \in DOMAIN accounts)
  /\ req' = Return(p, IF req[p].dto.accountId \in DOMAIN accounts
                        THEN OK ELSE NotFound)
  /\ UNCHANGED <<transactions, categories, nextId, calls, initialBalance>>

----------------------------------------------------------------------------
(* The ledger, calls served one after another: each call runs to           *)
(* completion before the next one starts.                                  *)

CreateTransactionSteps(p) ==
  \/ ct_findAccount(p)
  \/ ct_findToAccount(p)
  \/ ct_updateSource(p)
  \/ ct_updateDest(p)
  \/ ct_updateBalance(p)
  \/ ct_save(p)

DeleteTransactionSteps(p) ==
  \/ dt_getTransaction(p)
  \/ dt_findAccount(p)
  \/ dt_findToAccount(p)
  \/ dt_updateSource(p)
  \/ dt_updateDest(p)
  \/ dt_updateBalance(p)
  \/ dt_delete(p)

UpdateAccountBalanceSteps(p) ==
  \/ ub_getAccountById(p)
  \/ ub_updateBalance(p)

\* the caller is u1; a3 is the account of another user, c0 a category id
\* that does not exist
LedgerUsers == {"u1"}
LedgerCreateDtos ==
  CreateTransactionDtos(AccountIds, {NULL, "a1", "a2"},
                        {NULL, MissingCategoryId})
LedgerDeleteDtos == TransactionIdDtos(1..MaxCalls)
LedgerBalanceDtos ==
  UpdateBalanceDtos(AccountIds, (0 - MaxSetBalance)..MaxSetBalance)

Next ==
  \/ createTransaction(1, Procs, MaxCalls, LedgerUsers, LedgerCreateDtos)
  \/ deleteTransaction(1, Procs, MaxCalls, LedgerUsers, LedgerDeleteDtos)
  \/ updateAccountBalance(1, Procs, MaxCalls, LedgerUsers, LedgerBalanceDtos)
  \/ CreateTransactionSteps(1)
  \/ DeleteTransactionSteps(1)
  \/ UpdateAccountBalanceSteps(1)

Spec == Init /\ [][Next]_vars

----------------------------------------------------------------------------
(* The ledger under overlapping requests: two calls in progress at once,   *)
(* interleaved at their storage calls.  The caller is u1, the requests are *)
(* expenses and incomes on a1 and transfers from a1 to a2, with no         *)
(* category.                                                               *)

ConcCreateDtos == CreateTransactionDtos({"a1"}, {"a2"}, {NULL})
ConcDeleteDtos == TransactionIdDtos(1..MaxConcCalls)

ConcNext ==
  \E p \in Procs :
    \/ createTransaction(p, {}, MaxConcCalls, LedgerUsers, ConcCreateDtos)
    \/ deleteTransaction(p, {}, MaxConcCalls, LedgerUsers, ConcDeleteDtos)
    \/ CreateTransactionSteps(p)
    \/ DeleteTransactionSteps(p)

ConcSpec == Init /\ [][ConcNext]_vars

----------------------------------------------------------------------------
(* TransactionService.getTransaction / updateTransaction /                 *)
(* getAccountTransactions                                                  *)

getTransaction(p, others, limit, users, dtos) ==
  \E userId \in users, dto \in dtos :
    Begin(p, others, limit, "getTransaction", userId, dto, "gt_findById")

\* transactionRepo.findById(id) and the two checks
gt_findById(p) ==
  /\ req[p].pc = "gt_findById"
  /\ LET transaction == TransactionFindById(transactions, req[p].dto.id)
     IN req' = [req EXCEPT ![p].transaction = transaction, ![p].pc = "done",
                  ![p].result = GetTransactionCheck(transaction, req[p].userId)]
  /\ UNCHANGED <<accounts, transactions, categories, nextId, calls,
                 initialBalance, overwritten>>

\* the fields of UpdateTransactionDto that the model keeps: categoryId and
\* transactionDate (no other property passes the whitelist of the pipe)
UpdateTransactionDtos(ids, cats, dates) ==
  { [NoDto EXCEPT !.id = i, !.categoryId = c, !.transactionDate = d] :
      i \in ids, c \in cats, d \in dates }

updateTransaction(p, others, limit, users, dtos) ==
  \E userId \in users, dto \in dtos :
    Begin(p, others, limit, "updateTransaction", userId, dto,
          "ut_getTransaction")

\* getTransaction(id, userId)
ut_getTransaction(p) ==
  /\ req[p].pc = "ut_getTransaction"
  /\ LET transaction == TransactionFindById(transactions, req[p].dto.id)
         check == GetTransactionCheck(transaction, req[p].userId)
         r == [req EXCEPT ![p].transaction = transaction]
     IN req' = IF check = OK
                 THEN [r EXCEPT ![p].pc = "ut_update"]
                 ELSE [r EXCEPT ![p].pc = "done", ![p].result = check]
  /\ UNCHANGED <<accounts, transactions, categories, nextId, calls,
                 initialBalance, overwritten>>

\* transactionRepo.update(id, dto)
ut_update(p) ==
  /\ req[p].pc = "ut_update"
  /\ transactions' = TransactionUpdate(transactions, categories, req[p].dto.id,
                                       req[p].dto)
  /\ req' = Return(p, IF TransactionUpdateFails(transactions, categories,
                           req[p].dto.id, req[p].dto)
                        THEN NotFound ELSE OK)
  /\ UNCHANGED <<accounts, categories, nextId, calls, initialBalance,
                 overwritten>>

AccountIdDtos(accts) == { [NoDto EXCEPT !.accountId = a] : a \in accts }

getAccountTransactions(p, others, limit, users, dtos) ==
  \E userId \in users, dto \in dtos :
    Begin(p, others, limit, "getAccountTransactions", userId, dto,
          "gat_findById")

\* accountRepo.findById(accountId) and the combined check
gat_findById(p) ==
  /\ req[p].pc = "gat_findById"
  /\ LET account == AccountFindById(accounts, req[p].dto.accountId)
         r == [req EXCEPT ![p].account = account]
     IN req' = IF account = NoAccount \/ ~isOwnedBy(account, req[p].userId)
                 THEN [r EXCEPT ![p].pc = "done", ![p].result = Forbidden]
                 ELSE [r EXCEPT ![p].pc = "gat_findByFilters"]
  /\ UNCHANGED <<accounts, transactions, categories, nextId, calls,
                 initialBalance, overwritten>>

\* transactionRepo.findByFilters({userId, accountId}): a read
gat_findByFilters(p) ==
  /\ req[p].pc = "gat_findByFilters"
  /\ \E found \in TransactionFindByFilters(transactions,
                     [NoFilters EXCEPT !.userId = req[p].userId,
                                       !.accountId = req[p].dto.accountId]) :
       req' = [req EXCEPT ![p].pc = "done", ![p].result = OK,
                          ![p].list = found]
  /\ UNCHANGED <<accounts, transactions, categories, nextId, calls,
                 initialBalance, overwritten>>

----------------------------------------------------------------------------
(* AccountService: getAccountById, updateAccount, deactivateAccount,       *)
(* activateAccount, deleteAccount                                          *)

\* the shared first step: getAccountById(accountId, userId), then `next`
AccountLookup(p, pc, next) ==
  /\ req[p].pc = pc
  /\ LET account == AccountFindById(accounts, req[p].dto.accountId)
         check == GetAccountByIdCheck(account, req[p].userId)
         r == [req EXCEPT ![p].account = account]
     IN req' = IF check = OK
                 THEN [r EXCEPT ![p].pc = next]
                 ELSE [r EXCEPT ![p].pc = "done", ![p].result = check]
  /\ UNCHANGED <<accounts, transactions, categories, nextId, calls,
                 initialBalance, overwritten>>

\* accountRepository.update(accountId, {field: value}); null gives NotFound
AccountWrite(p, pc, field, value) ==
  /\ req[p].pc = pc
  /\ accounts' = AccountUpdate(accounts, req[p].dto.accountId, field, value)
  /\ req' = Return(p, IF req[p].dto.accountId \in DOMAIN accounts
                        THEN OK ELSE NotFound)
  /\ UNCHANGED <<transactions, categories, nextId, calls, initialBalance,
                 overwritten>>

getAccountById(p, others, limit, users, dtos) ==
  \E userId \in users, dto \in dtos :
    Begin(p, others, limit, "getAccountById", userId, dto, "ga_findById")

ga_findById(p) ==
  /\ req[p].pc = "ga_findById"
  /\ LET account == AccountFindById(accounts, req[p].dto.accountId)
     IN req' = [req EXCEPT ![p].account = account, ![p].pc = "done",
                  ![p].result = GetAccountByIdCheck(account, req[p].userId)]
  /\ UNCHANGED <<accounts, transactions, categories, nextId, calls,
                 initialBalance, overwritten>>

UpdateAccountDtos(accts, names) ==
  { [NoDto EXCEPT !.accountId = a, !.name = n] : a \in accts, n \in names }

updateAccount(p, others, limit, users, dtos) ==
  \E userId \in users, dto \in dtos :
    Begin(p, others, limit, "updateAccount", userId, dto, "ua_getAccountById")

\* the name check is made only `if (updateAccountDto.name)`
ua_getAccountById(p) ==
  AccountLookup(p, "ua_getAccountById",
                IF req[p].dto.name # NULL THEN "ua_existsByName"
                                          ELSE "ua_update")

\* existsByUserIdAndName(userId, dto.name, accountId)
ua_existsByName(p) ==
  /\ req[p].pc = "ua_existsByName"
  /\ req' = IF AccountExistsByUserIdAndName(accounts, req[p].userId,
                 req[p].dto.name, req[p].dto.accountId)
              THEN Return(p, BadRequest)
              ELSE Goto(p, "ua_update")
  /\ UNCHANGED <<accounts, transactions, categories, nextId, calls,
                 initialBalance, overwritten>>

\* accountRepository.update(accountId, dto): a dto without name leaves it
ua_update(p) ==
  AccountWrite(p, "ua_update", "name",
               IF req[p].dto.name # NULL THEN req[p].dto.name
               ELSE AccountFindById(accounts, req[p].dto.accountId).name)

deactivateAccount(p, others, limit, users, dtos) ==
  \E userId \in users, dto \in dtos :
    Begin(p, others, limit, "deactivateAccount", userId, dto,
          "da_getAccountById")

da_getAccountById(p) == AccountLookup(p, "da_getAccountById", "da_update")
da_update(p) == AccountWrite(p, "da_update", "isActive", FALSE)

activateAccount(p, others, limit, users, dtos) ==
  \E userId \in users, dto \in dtos :
    Begin(p, others, limit, "activateAccount", userId, dto,
          "aa_getAccountById")

aa_getAccountById(p) == AccountLookup(p, "aa_getAccountById", "aa_update")
aa_update(p) == AccountWrite(p, "aa_update", "isActive", TRUE)

deleteAccount(p, others, limit, users, dtos) ==
  \E userId \in users, dto \in dtos :
    Begin(p, others, limit, "deleteAccount", userId, dto, "xa_getAccountById")

xa_getAccountById(p) == AccountLookup(p, "xa_getAccountById", "xa_update")
\* (a variant that deletes the row: accountRepository.delete(accountId))
xa_update_HardDelete(p) ==
  /\ req[p].pc = "xa_update"
  /\ accounts' = [a \in DOMAIN accounts \ {req[p].dto.accountId} |-> accounts[a]]
  /\ req' = Return(p, OK)
  /\ UNCHANGED <<transactions, categories, nextId, calls, initialBalance,
                 overwritten>>

\* accountRepository.update(accountId, {isActive: false})
xa_update(p) == AccountWrite(p, "xa_update", "isActive", FALSE)

----------------------------------------------------------------------------
(* CategoryService: getCategory, updateCategory, deleteCategory            *)

\* the result of the two checks of getCategory: NotFound, Forbidden or OK
GetCategoryCheck(category, userId) ==
  IF category = NoCategory THEN NotFound
  ELSE IF ~isOwnedBy(category, userId) THEN Forbidden
  ELSE OK

\* the shared first step: getCategory(id, userId), then `next`
CategoryLookup(p, pc, next) ==
  /\ req[p].pc = pc
  /\ LET category == CategoryFindById(categories, req[p].dto.categoryId)
         check == GetCategoryCheck(category, req[p].userId)
     IN req' = IF check = OK
                 THEN Goto(p, next)
                 ELSE Return(p, check)
  /\ UNCHANGED <<accounts, transactions, categories, nextId, calls,
                 initialBalance, overwritten>>

CategoryIdDtos(cats) == { [NoDto EXCEPT !.categoryId = c] : c \in cats }

getCategory(p, others, limit, users, dtos) ==
  \E userId \in users, dto \in dtos :
    Begin(p, others, limit, "getCategory", userId, dto, "gc_findById")

gc_findById(p) == CategoryLookup(p, "gc_findById", "done_ok")

\* the lookup succeeded: return the entity
done_ok(p) ==
  /\ req[p].pc = "done_ok"
  /\ req' = Return(p, OK)
  /\ UNCHANGED <<accounts, transactions, categories, nextId, calls,
                 initialBalance, overwritten>>

UpdateCategoryDtos(cats, names) ==
  { [NoDto EXCEPT !.categoryId = c, !.name = n] : c \in cats, n \in names }

updateCategory(p, others, limit, users, dtos) ==
  \E userId \in users, dto \in dtos :
    Begin(p, others, limit, "updateCategory", userId, dto, "uc_getCategory")

\* the name check is made only `if (dto.name)`
uc_getCategory(p) ==
  CategoryLookup(p, "uc_getCategory",
                 IF req[p].dto.name # NULL THEN "uc_existsByName"
                                           ELSE "uc_update")

\* existsByUserIdAndName(userId, dto.name, id)
uc_existsByName(p) ==
  /\ req[p].pc = "uc_existsByName"
  /\ req' = IF CategoryExistsByUserIdAndName(categories, req[p].userId,
                 req[p].dto.name, req[p].dto.categoryId)
              THEN Return(p, BadRequest)
              ELSE Goto(p, "uc_update")
  /\ UNCHANGED <<accounts, transactions, categories, nextId, calls,
                 initialBalance, overwritten>>

\* the row updateCategory asks the storage to write
UpdateCategoryData(category, dto) ==
  IF dto.name # NULL THEN [category EXCEPT !.name = dto.name] ELSE category

\* categoryRepo.update(id, dto); null gives NotFound
uc_update(p) ==
  /\ req[p].pc = "uc_update"
  /\ LET data == UpdateCategoryData(
                   CategoryFindById(categories, req[p].dto.categoryId),
                   req[p].dto)
     IN /\ categories' = CategoryUpdate(categories, req[p].dto.categoryId, data)
        /\ req' = Return(p, IF CategoryUpdateFails(categories,
                                 req[p].dto.categoryId, data)
                              THEN NotFound ELSE OK)
  /\ UNCHANGED <<accounts, transactions, nextId, calls, initialBalance,
                 overwritten>>

deleteCategory(p, others, limit, users, dtos) ==
  \E userId \in users, dto \in dtos :
    Begin(p, others, limit, "deleteCategory", userId, dto, "dc_getCategory")

dc_getCategory(p) == CategoryLookup(p, "dc_getCategory", "dc_update")

\* the row deleteCategory asks the storage to write
DeleteCategoryData == [userId |-> "", name |-> "", isActive |-> FALSE]

\* categoryRepo.update(id, {name: '', userId: '', ..., isActive: false});
\* the result of the update is not looked at
dc_update(p) ==
  /\ req[p].pc = "dc_update"
  /\ categories' = CategoryUpdate(categories, req[p].dto.categoryId,
                                  DeleteCategoryData)
  /\ req' = Return(p, OK)
  /\ UNCHANGED <<accounts, transactions, nextId, calls, initialBalance,
                 overwritten>>

----------------------------------------------------------------------------
(* Every by-id operation, called by either user on the entities of both    *)
(* and on ids that no row has; calls served one after another.             *)

AccessAccountIds == {"a1", "a3", MissingAccountId}
AccessCategoryIds == CategoryIds \cup {MissingCategoryId}
AccessTransactionIds == 1..MaxAccessCalls

AccessCreateDtos ==
  { [NoDto EXCEPT !.accountId = a, !.type = t, !.amount = MinAmount,
                  !.toAccountId = to, !.categoryId = c] :
      a \in AccessAccountIds, t \in {EXPENSE}, to \in {NULL}, c \in {"c1"} }
  \cup
  { [NoDto EXCEPT !.accountId = a, !.type = t, !.amount = MinAmount,
                  !.toAccountId = to, !.categoryId = c] :
      a \in {"a1"}, t \in {TRANSFER},
      to \in {"a2", "a3", MissingAccountId}, c \in {NULL} }

AccessCalls(p) ==
  \/ createTransaction(p, Procs, MaxAccessCalls, Users, AccessCreateDtos)
  \/ deleteTransaction(p, Procs, MaxAccessCalls, Users,
                       TransactionIdDtos(AccessTransactionIds))
  \/ getTransaction(p, Procs, MaxAccessCalls, Users,
                    TransactionIdDtos(AccessTransactionIds))
  \/ updateTransaction(p, Procs, MaxAccessCalls, Users,
                       UpdateTransactionDtos(AccessTransactionIds,
                                             {"c1", MissingCategoryId},
                                             {NoDate}))
  \/ getAccountTransactions(p, Procs, MaxAccessCalls, Users,
                            AccountIdDtos(AccessAccountIds))
  \/ getAccountById(p, Procs, MaxAccessCalls, Users,
                    AccountIdDtos(AccessAccountIds))
  \/ updateAccount(p, Procs, MaxAccessCalls, Users,
                   UpdateAccountDtos(AccessAccountIds, {NULL, "n2", "n3"}))
  \/ updateAccountBalance(p, Procs, MaxAccessCalls, Users,
                          UpdateBalanceDtos(AccessAccountIds, {0 - 1, 1}))
  \/ deactivateAccount(p, Procs, MaxAccessCalls, Users,
                       AccountIdDtos(AccessAccountIds))
  \/ activateAccount(p, Procs, MaxAccessCalls, Users,
                     AccountIdDtos(AccessAccountIds))
  \/ deleteAccount(p, Procs, MaxAccessCalls, Users,
                   AccountIdDtos(AccessAccountIds))
  \/ getCategory(p, Procs, MaxAccessCalls, Users,
                 CategoryIdDtos(AccessCategoryIds))
  \/ updateCategory(p, Procs, MaxAccessCalls, Users,
                    UpdateCategoryDtos(AccessCategoryIds, {NULL, "K1", "k2"}))
  \/ deleteCategory(p, Procs, MaxAccessCalls, Users,
                    CategoryIdDtos(AccessCategoryIds))

GetTransactionSteps(p) ==
  \/ gt_findById(p)
  \/ ut_getTransaction(p)
  \/ ut_update(p)
  \/ gat_findById(p)
  \/ gat_findByFilters(p)

AccountServiceSteps(p) ==
  \/ ga_findById(p)
  \/ ua_getAccountById(p)
  \/ ua_existsByName(p)
  \/ ua_update(p)
  \/ da_getAccountById(p)
  \/ da_update(p)
  \/ aa_getAccountById(p)
  \/ aa_update(p)
  \/ xa_getAccountById(p)
  \/ xa_update(p)

CategoryServiceSteps(p) ==
  \/ gc_findById(p)
  \/ done_ok(p)
  \/ uc_getCategory(p)
  \/ uc_existsByName(p)
  \/ uc_update(p)
  \/ dc_getCategory(p)
  \/ dc_update(p)

AccessNext ==
  \/ AccessCalls(1)
  \/ CreateTransactionSteps(1)
  \/ DeleteTransactionSteps(1)
  \/ UpdateAccountBalanceSteps(1)
  \/ GetTransactionSteps(1)
  \/ AccountServiceSteps(1)
  \/ CategoryServiceSteps(1)

AccessSpec == Init /\ [][AccessNext]_vars

----------------------------------------------------------------------------
(* TransactionController.create: the validation pipe, then                 *)
(* createTransaction                                                       *)

\* (a variant without the @Min(0.01) rule)
AmountIsValid_NoMin(amount) == amount \in Int

\* the rules of CreateTransactionDto.amount: @IsNumber() @Min(0.01)
AmountIsValid(amount) == amount >= MinAmount

create(p, others, limit, users, dtos) ==
  \E userId \in users, dto \in dtos :
    Begin(p, others, limit, "createTransaction", userId, dto, "ct_validate")

\* the pipe rejects the request, or hands it to createTransaction
ct_validate(p) ==
  /\ req[p].pc = "ct_validate"
  /\ req' = IF AmountIsValid(req[p].dto.amount)
              THEN Goto(p, "ct_findAccount")
              ELSE Return(p, BadRequest)
  /\ UNCHANGED <<accounts, transactions, categories, nextId, calls,
                 initialBalance, overwritten>>

----------------------------------------------------------------------------
(* TransactionService.getUserTransactions / getMonthlyStats                *)

\* the filters of a request: each of them optional
FilterDtos(accts, cats, types, froms, tos) ==
  { [NoDto EXCEPT !.accountId = a, !.categoryId = c, !.type = t,
                  !.dateFrom = f, !.dateTo = d] :
      a \in accts, c \in cats, t \in types, f \in froms, d \in tos }

getUserTransactions(p, others, limit, users, dtos) ==
  \E userId \in users, dto \in dtos :
    Begin(p, others, limit, "getUserTransactions", userId, dto,
          "gut_findByFilters")

\* transactionRepo.findByFilters({userId, ...filters})
gut_findByFilters(p) ==
  /\ req[p].pc = "gut_findByFilters"
  /\ \E found \in TransactionFindByFilters(transactions,
                     [userId |-> req[p].userId,
                      accountId |-> req[p].dto.accountId,
                      categoryId |-> req[p].dto.categoryId,
                      type |-> req[p].dto.type,
                      dateFrom |-> req[p].dto.dateFrom,
                      dateTo |-> req[p].dto.dateTo]) :
       req' = [req EXCEPT ![p].pc = "done", ![p].result = OK,
                          ![p].list = found]
  /\ UNCHANGED <<accounts, transactions, categories, nextId, calls,
                 initialBalance, overwritten>>

MonthDtos(months) == { [NoDto EXCEPT !.month = m] : m \in months }

getMonthlyStats(p, others, limit, users, dtos) ==
  \E userId \in users, dto \in dtos :
    Begin(p, others, limit, "getMonthlyStats", userId, dto, "gms_sums")

\* the call returns when both sums of Promise.all are known
StatsReturn(p, stats) ==
  IF stats.income # NoSum /\ stats.expense # NoSum
    THEN [req EXCEPT ![p].pc = "done", ![p].result = OK,
                     ![p].stats = [stats EXCEPT
                                     !.net = stats.income - stats.expense]]
    ELSE [req EXCEPT ![p].stats = stats]

\* (a variant whose window ends at the milliseconds the clock shows)
gms_income_ClockWindow(p) ==
  /\ req[p].pc = "gms_sums"
  /\ req[p].stats.income = NoSum
  /\ \E ms \in 0..(TicksPerSecond - 1) :
       req' = StatsReturn(p, [req[p].stats EXCEPT !.income =
                TransactionGetSumByType(transactions, req[p].userId, INCOME,
                                        startDate(req[p].dto.month),
                                        endDate(req[p].dto.month) + ms)])
  /\ UNCHANGED <<accounts, transactions, categories, nextId, calls,
                 initialBalance, overwritten>>

\* getSumByType(userId, INCOME, startDate, endDate)
gms_income(p) ==
  /\ req[p].pc = "gms_sums"
  /\ req[p].stats.income = NoSum
  /\ req' = StatsReturn(p, [req[p].stats EXCEPT !.income =
               TransactionGetSumByType(transactions, req[p].userId, INCOME,
                                       startDate(req[p].dto.month),
                                       endDate(req[p].dto.month))])
  /\ UNCHANGED <<accounts, transactions, categories, nextId, calls,
                 initialBalance, overwritten>>

\* getSumByType(userId, EXPENSE, startDate, endDate)
gms_expense(p) ==
  /\ req[p].pc = "gms_sums"
  /\ req[p].stats.expense = NoSum
  /\ req' = StatsReturn(p, [req[p].stats EXCEPT !.expense =
               TransactionGetSumByType(transactions, req[p].userId, EXPENSE,
                                       startDate(req[p].dto.month),
                                       endDate(req[p].dto.month))])
  /\ UNCHANGED <<accounts, transactions, categories, nextId, calls,
                 initialBalance, overwritten>>

----------------------------------------------------------------------------
(* Recording and querying: validated creates by both users, updates of the *)
(* non-financial fields, and the three read operations; calls served one   *)
(* after another.  The dates are the first instant of the last second of   *)
(* month 0, the instant after it, and (in updates) the first instant of    *)
(* month 1.                                                                *)

QueryCreateDtos ==
  { [NoDto EXCEPT !.accountId = "a1", !.type = t, !.amount = Cent,
                  !.toAccountId = "a2", !.categoryId = c,
                  !.transactionDate = d] :
      t \in {INCOME, EXPENSE}, c \in {NULL, "c1"},
      d \in {endDate(0), endDate(0) + 1} }
  \cup
  { [NoDto EXCEPT !.accountId = "a1", !.type = TRANSFER, !.amount = Cent,
                  !.toAccountId = "a2", !.transactionDate = endDate(0)] }
  \cup
  { [NoDto EXCEPT !.accountId = "a3", !.type = t, !.amount = Cent,
                  !.transactionDate = endDate(0)] :
      t \in {INCOME, EXPENSE} }
  \cup
  { [NoDto EXCEPT !.accountId = "a1", !.type = INCOME, !.amount = m,
                  !.transactionDate = endDate(0)] :
      m \in (0 - Cent)..(MinAmount - 1) }

\* (the transaction of the last call of a behaviour cannot be updated)
QueryUpdateDtos ==
  UpdateTransactionDtos(1..(MaxQueryCalls - 1), {NULL, "c1"},
                        {NoDate, startDate(1)})

\* filters on account, category and type without dates, and date ranges
\* without the other filters
QueryFilterDtos ==
  FilterDtos({NULL, "a1", "a2"}, {NULL, "c1"}, {NULL, INCOME},
             {NoDate}, {NoDate})
  \cup FilterDtos({NULL}, {NULL}, {NULL}, {endDate(0) + 1}, {NoDate})
  \cup FilterDtos({NULL}, {NULL}, {NULL}, {NoDate, endDate(0)}, {endDate(0)})

QueryCalls(p) ==
  \/ create(p, Procs, MaxQueryCalls, Users, QueryCreateDtos)
  \/ updateTransaction(p, Procs, MaxQueryCalls, Users, QueryUpdateDtos)
  \/ getUserTransactions(p, Procs, MaxQueryCalls, Users, QueryFilterDtos)
  \/ getAccountTransactions(p, Procs, MaxQueryCalls, Users,
                            AccountIdDtos({"a1", "a2", "a3"}))
  \/ getMonthlyStats(p, Procs, MaxQueryCalls, Users, MonthDtos(0..MaxMonth))

QuerySteps(p) ==
  \/ ct_validate(p)
  \/ ut_getTransaction(p)
  \/ ut_update(p)
  \/ gut_findByFilters(p)
  \/ gat_findById(p)
  \/ gat_findByFilters(p)
  \/ gms_income(p)
  \/ gms_expense(p)

QueryNext ==
  \/ QueryCalls(1)
  \/ CreateTransactionSteps(1)
  \/ QuerySteps(1)

\* the checking account a1 opens with one cent
QueryInit == Init /\ accounts["a1"].balance = Cent

QuerySpec == QueryInit /\ [][QueryNext]_vars

----------------------------------------------------------------------------
(* AccountService.createAccount, and the account API of one user: calls    *)
(* served one after another, the caller is u1.                             *)

\* String.prototype.trim on the names of the model
Trim(name) ==
  IF name = " n1" THEN "n1" ELSE IF name = " n2" THEN "n2" ELSE name

\* the ids the storage gives to new rows of the accounts table, in order
NewAccountIds == <<"a4", "a5", "a6", "a7", "a8">>

\* Account.create: the name is trimmed, the account is active
AccountCreate(userId, name, accountType, initialBalance_) ==
  [userId |-> userId, name |-> Trim(name), accountType |-> accountType,
   balance |-> initialBalance_, isActive |-> TRUE]

\* PrismaAccountRepository.save: one INSERT under a new id
AccountSave(accts, id, data) ==
  [a \in DOMAIN accts \cup {id} |-> IF a = id THEN data ELSE accts[a]]

CreateAccountDtos(names) == { [NoDto EXCEPT !.name = n] : n \in names }

createAccount(p, others, limit, users, dtos) ==
  /\ Cardinality(DOMAIN accounts) - Cardinality(AccountIds) < Len(NewAccountIds)
  /\ \E userId \in users, dto \in dtos :
       Begin(p, others, limit, "createAccount", userId, dto, "ca_existsByName")

\* existsByUserIdAndName(userId, name), with the name as the request has it
ca_existsByName(p) ==
  /\ req[p].pc = "ca_existsByName"
  /\ req' = IF AccountExistsByUserIdAndName(accounts, req[p].userId,
                 req[p].dto.name, NULL)
              THEN Return(p, BadRequest)
              ELSE Goto(p, "ca_save")
  /\ UNCHANGED <<accounts, transactions, categories, nextId, calls,
                 initialBalance, overwritten>>

\* Account.create and accountRepository.save (type checking, balance 0)
ca_save(p) ==
  /\ req[p].pc = "ca_save"
  /\ accounts' =
       AccountSave(accounts,
         NewAccountIds[Cardinality(DOMAIN accounts) - Cardinality(AccountIds) + 1],
         AccountCreate(req[p].userId, req[p].dto.name, CHECKING, 0))
  /\ req' = Return(p, OK)
  /\ UNCHANGED <<transactions, categories, nextId, calls, initialBalance,
                 overwritten>>

AccountApiUsers == {"u1"}
AccountApiIds == {"a1", "a2"}
AccountApiNames == {"n2", " n1"}

AccountApiCalls(p) ==
  \/ createAccount(p, Procs, MaxAccountCalls, AccountApiUsers,
                   CreateAccountDtos(AccountApiNames \cup {"n3"}))
  \/ updateAccount(p, Procs, MaxAccountCalls, AccountApiUsers,
                   UpdateAccountDtos(AccountApiIds, AccountApiNames))
  \/ deactivateAccount(p, Procs, MaxAccountCalls, AccountApiUsers,
                       AccountIdDtos(AccountApiIds))
  \/ activateAccount(p, Procs, MaxAccountCalls, AccountApiUsers,
                     AccountIdDtos(AccountApiIds))
  \/ deleteAccount(p, Procs, MaxAccountCalls, AccountApiUsers,
                   AccountIdDtos(AccountApiIds))
  \/ getAccountById(p, Procs, MaxAccountCalls, AccountApiUsers,
                    AccountIdDtos(AccountApiIds))

AccountApiNext ==
  \/ AccountApiCalls(1)
  \/ ca_existsByName(1)
  \/ ca_save(1)
  \/ AccountServiceSteps(1)

AccountApiSpec == Init /\ [][AccountApiNext]_vars

----------------------------------------------------------------------------
(* CategoryService.createCategory, createDefaultCategories (the initialize *)
(* endpoint) and getUserCategories; with updateCategory, the category API  *)
(* of two users, calls served one after another.  u1 has no category yet,  *)
(* u2 has made the category k1.                                            *)

\* the ids the storage gives to new rows of the Category table, in order
NewCategoryIds == <<"c3", "c4", "c5", "c6", "c7", "c8", "c9">>

\* the names of Category.getDefaultCategories, in the order of the list
DefaultCategoryNames == <<"K1", "K2">>

\* Category.create: the name is trimmed, the category is active
CategoryCreate(userId, name) ==
  [userId |-> userId, name |-> Trim(name), isActive |-> TRUE]

\* Category_userId_name_key: TRUE when a row of cats has this (userId, name)
CategoryKeyTaken(cats, data) ==
  \E c \in DOMAIN cats :
    cats[c].userId = data.userId /\ cats[c].name = data.name

\* the id of the next row of the Category table
NewCategoryId(cats) ==
  NewCategoryIds[Cardinality(DOMAIN cats \ CategoryIds) + 1]

\* PrismaCategoryRepository.save: one INSERT (the caller sees it throw when
\* the key is taken)
CategorySave(cats, data) ==
  [c \in DOMAIN cats \cup {NewCategoryId(cats)} |->
     IF c \in DOMAIN cats THEN cats[c] ELSE data]

\* PrismaCategoryRepository.saveMany: createMany with skipDuplicates, which
\* leaves out the rows whose (userId, name) is taken
RECURSIVE CategorySaveMany(_, _)
CategorySaveMany(cats, data) ==
  IF data = <<>> THEN cats
  ELSE CategorySaveMany(
         IF CategoryKeyTaken(cats, Head(data)) THEN cats
         ELSE CategorySave(cats, Head(data)),
         Tail(data))

\* Category.getDefaultCategories(userId)
GetDefaultCategories(userId) ==
  [i \in DOMAIN DefaultCategoryNames |->
     CategoryCreate(userId, DefaultCategoryNames[i])]

\* PrismaCategoryRepository.findByUserId: the active rows of the user
CategoryFindByUserId(cats, userId) ==
  { c \in DOMAIN cats : cats[c].userId = userId /\ cats[c].isActive }

\* room for the rows one call can add
CategoryIdsLeft(cats) ==
  Cardinality(DOMAIN cats \ CategoryIds) + Len(DefaultCategoryNames)
    <= Len(NewCategoryIds)

CreateCategoryDtos(names) == { [NoDto EXCEPT !.name = n] : n \in names }

createCategory(p, others, limit, users, dtos) ==
  /\ CategoryIdsLeft(categories)
  /\ \E userId \in users, dto \in dtos :
       Begin(p, others, limit, "createCategory", userId, dto, "cc_existsByName")

\* existsByUserIdAndName(userId, dto.name)
cc_existsByName(p) ==
  /\ req[p].pc = "cc_existsByName"
  /\ req' = IF CategoryExistsByUserIdAndName(categories, req[p].userId,
                 req[p].dto.name, NULL)
              THEN Return(p, BadRequest)
              ELSE Goto(p, "cc_save")
  /\ UNCHANGED <<accounts, transactions, categories, nextId, calls,
                 initialBalance, overwritten>>

\* Category.create and categoryRepo.save
cc_save(p) ==
  /\ req[p].pc = "cc_save"
  /\ LET data == CategoryCreate(req[p].userId, req[p].dto.name)
     IN IF CategoryKeyTaken(categories, data)
          THEN /\ req' = Return(p, StorageError)
               /\ UNCHANGED categories
          ELSE /\ categories' = CategorySave(categories, data)
               /\ req' = Return(p, OK)
  /\ UNCHANGED <<accounts, transactions, nextId, calls, initialBalance,
                 overwritten>>

\* CategoryController.initialize
createDefaultCategories(p, others, limit, users) ==
  /\ CategoryIdsLeft(categories)
  /\ \E userId \in users :
       Begin(p, others, limit, "createDefaultCategories", userId, NoDto,
             "cd_saveMany")

\* categoryRepo.saveMany(Category.getDefaultCategories(userId))
cd_saveMany(p) ==
  /\ req[p].pc = "cd_saveMany"
  /\ categories' =
       CategorySaveMany(categories, GetDefaultCategories(req[p].userId))
  /\ req' = Return(p, OK)
  /\ UNCHANGED <<accounts, transactions, nextId, calls, initialBalance,
                 overwritten>>

getUserCategories(p, others, limit, users) ==
  /\ CategoryIdsLeft(categories)
  /\ \E userId \in users :
       Begin(p, others, limit, "getUserCategories", userId, NoDto,
             "gu_findByUserId")

\* categoryRepo.findByUserId(userId); a user without categories gets the
\* default ones
gu_findByUserId(p) ==
  /\ req[p].pc = "gu_findByUserId"
  /\ req' = IF CategoryFindByUserId(categories, req[p].userId) = {}
              THEN Goto(p, "cd_saveMany")
              ELSE Return(p, OK)
  /\ UNCHANGED <<accounts, transactions, categories, nextId, calls,
                 initialBalance, overwritten>>

CategoryApiIds == {"c2", "c3"}
CategoryApiNames == {"K1", "k2"}

CategoryApiCalls(p) ==
  \/ createCategory(p, Procs, MaxCategoryCalls, Users,
                    CreateCategoryDtos(CategoryApiNames))
  \/ updateCategory(p, Procs, MaxCategoryCalls, Users,
                    UpdateCategoryDtos(CategoryApiIds, CategoryApiNames))
  \/ createDefaultCategories(p, Procs, MaxCategoryCalls, Users)
  \/ getUserCategories(p, Procs, MaxCategoryCalls, Users)

CategoryApiNext ==
  \/ CategoryApiCalls(1)
  \/ cc_existsByName(1)
  \/ cc_save(1)
  \/ cd_saveMany(1)
  \/ gu_findByUserId(1)
  \/ uc_getCategory(1)
  \/ uc_existsByName(1)
  \/ uc_update(1)

CategoryApiInit ==
  /\ accounts =
       [a \in AccountIds |->
          IF a = "a1"
            THEN [userId |-> "u1", name |-> "n1", accountType |-> CHECKING,
                  balance |-> Cent, isActive |-> TRUE]
          ELSE IF a = "a2"
            THEN [userId |-> "u1", name |-> "n2", accountType |-> CREDIT,
                  balance |-> 0, isActive |-> TRUE]
            ELSE [userId |-> "u2", name |-> "n1", accountType |-> SAVINGS,
                  balance |-> Cent, isActive |-> TRUE]]
  /\ transactions = <<>>
  /\ categories =
       [c \in {"c2"} |-> [userId |-> "u2", name |-> "k1", isActive |-> TRUE]]
  /\ nextId = 1
  /\ calls = 0
  /\ initialBalance = [a \in AccountIds |-> accounts[a].balance]
  /\ overwritten = FALSE
  /\ req = [p \in Procs |-> IdleReq]

CategoryApiSpec == CategoryApiInit /\ [][CategoryApiNext]_vars

----------------------------------------------------------------------------
(* Rows that vanish under a call.  The services test every findById for    *)
(* null and the repository catches the failure of every UPDATE and DELETE  *)
(* of a missing row: the rows of the storage can be removed by a client    *)
(* other than the service methods above, of which none removes an account. *)
(* Here that client is the hard delete of the account repository.  One     *)
(* createTransaction at a time by u1 (an expense on a1 or a transfer from  *)
(* a1 to a2, of one cent), deleteTransaction calls that overlap with it    *)
(* and with each other, and the removal of a1 or a2 at any moment.         *)

\* Transaction_accountId_fkey, ON DELETE RESTRICT: TRUE when a row of txs
\* refers to the account id as its accountId
AccountIsReferenced(txs, id) ==
  \E i \in DOMAIN txs : txs[i].accountId = id

\* PrismaAccountRepository.delete: one DELETE; it throws (caught, false) when
\* the row is missing or a Transaction row refers to it
AccountDelete(id) ==
  /\ id \in DOMAIN accounts
  /\ ~AccountIsReferenced(transactions, id)
  /\ accounts' = [a \in DOMAIN accounts \ {id} |-> accounts[a]]
  /\ UNCHANGED <<transactions, categories, nextId, calls, initialBalance,
                 overwritten, req>>

RaceCreateDtos ==
  { [NoDto EXCEPT !.accountId = "a1", !.type = EXPENSE, !.amount = MinAmount],
    [NoDto EXCEPT !.accountId = "a1", !.type = TRANSFER, !.amount = MinAmount,
                  !.toAccountId = "a2"] }
RaceDeleteDtos == TransactionIdDtos(1..(MaxRaceCalls - 2))
RaceAccountIds == {"a1", "a2"}

RaceNext ==
  \/ createTransaction(1, Procs, MaxRaceCalls, LedgerUsers, RaceCreateDtos)
  \/ \E p \in Procs :
       \/ deleteTransaction(p, {}, MaxRaceCalls, LedgerUsers, RaceDeleteDtos)
       \/ CreateTransactionSteps(p)
       \/ DeleteTransactionSteps(p)
  \/ \E id \in RaceAccountIds : AccountDelete(id)

RaceSpec == QueryInit /\ [][RaceNext]_vars

----------------------------------------------------------------------------
(* Properties *)

Balances(accts) == [a \in DOMAIN accts |-> accts[a].balance]

Quiescent == \A p \in Procs : ~Running(p)

Done(p, op) == req[p].pc = "done" /\ req[p].op = op

\* the effect of one transaction row on the balance of account a
Effect(t, a) ==
  (IF t.type = INCOME /\ t.accountId = a THEN t.amount ELSE 0)
  - (IF t.type = EXPENSE /\ t.accountId = a THEN t.amount ELSE 0)
  - (IF t.type = TRANSFER /\ t.accountId = a THEN t.amount ELSE 0)
  + (IF t.type = TRANSFER /\ t.toAccountId = a THEN t.amount ELSE 0)

RECURSIVE SumEffects(_, _, _)
SumEffects(txs, ids, a) ==
  IF ids = {} THEN 0
  ELSE LET i == CHOOSE x \in ids : TRUE
       IN Effect(txs[i], a) + SumEffects(txs, ids \ {i}, a)

\* the balance of a that the rows of txs account for
LedgerBalance(txs, a) == initialBalance[a] + SumEffects(txs, DOMAIN txs, a)

\* C1: in every reachable state every account that is not a credit account
\* has a balance >= 0.
C1_NonCreditBalanceNonNegative ==
  \A a \in DOMAIN accounts :
    accounts[a].accountType # CREDIT => accounts[a].balance >= 0

\* C2: whenever no call is in progress and no direct balance overwrite has
\* happened, every balance equals the initial balance plus the effects of the
\* transaction rows that exist.
C2_LedgerConsistent ==
  (Quiescent /\ ~overwritten) =>
    \A a \in DOMAIN accounts :
      accounts[a].balance = LedgerBalance(transactions, a)

\* C3: a createTransaction call that fails leaves no partial state: no row
\* was added and every account is as it was before the call.
C3_FailedCreateLeavesNoPartialState ==
  \A p \in Procs :
    (Done(p, "createTransaction") /\ req[p].result # OK) =>
      /\ accounts = req[p].pre.accounts
      /\ transactions = req[p].pre.transactions

\* C4: when two calls run concurrently and both succeed, every balance
\* reflects the deltas of both: it equals the initial balance plus the
\* effects of the rows that exist after them.
C4_NoLostUpdate ==
  (/\ \A p \in Procs :
        /\ req[p].pc = "done"
        /\ req[p].result = OK
        /\ req[p].overlapped
   /\ calls = Cardinality(Procs)) =>
    \A a \in DOMAIN accounts :
      accounts[a].balance = LedgerBalance(transactions, a)

\* a request whose next step is its first read of the storage
AboutToRead(q) == req[q].pc \in {"ct_findAccount", "dt_getTransaction"}

\* C5: the balance writes and the row write of one call are one atomic unit:
\* in no state that a concurrent request is about to read is a balance effect
\* applied without its row, or a row present without its balance effect.
C5_RowAndBalanceAtomic ==
  (\E q \in Procs : AboutToRead(q)) =>
    \A a \in DOMAIN accounts :
      accounts[a].balance = LedgerBalance(transactions, a)

\* a finished, successful createTransaction of a transfer between two
\* different accounts
TransferCreated(p) ==
  /\ Done(p, "createTransaction")
  /\ req[p].result = OK
  /\ req[p].dto.type = TRANSFER
  /\ req[p].dto.accountId # req[p].dto.toAccountId

\* a finished, successful deleteTransaction of a transfer between two
\* different accounts that both still exist
TransferDeleted(p) ==
  /\ Done(p, "deleteTransaction")
  /\ req[p].result = OK
  /\ req[p].transaction.type = TRANSFER
  /\ req[p].transaction.accountId # req[p].transaction.toAccountId
  /\ req[p].transaction.accountId \in DOMAIN req[p].pre.accounts
  /\ req[p].transaction.toAccountId \in DOMAIN req[p].pre.accounts

\* the balances of `before` with amount moved from account x to account y
Moved(before, x, y, amount) ==
  [a \in DOMAIN before |->
     IF a = x THEN before[a] - amount
     ELSE IF a = y THEN before[a] + amount
     ELSE before[a]]

\* C6: a successful transfer of amount A from X to Y (two accounts of the
\* caller) takes exactly A from X and adds exactly A to Y; deleting the
\* transfer moves A back, and a delete that directly follows the create
\* restores the balances that preceded the create.
C6_TransferSymmetry ==
  \A p \in Procs :
    /\ TransferCreated(p) =>
         Balances(accounts) =
           Moved(Balances(req[p].pre.accounts), req[p].dto.accountId,
                 req[p].dto.toAccountId, req[p].dto.amount)
    /\ TransferDeleted(p) =>
         /\ Balances(accounts) =
              Moved(Balances(req[p].pre.accounts),
                    req[p].transaction.toAccountId,
                    req[p].transaction.accountId, req[p].transaction.amount)
         /\ req[p].follows => Balances(accounts) = Balances(req[p].createPre)

\* a finished, successful deleteTransaction of an expense or income that
\* directly follows the createTransaction of that transaction
RoundTrip(p) ==
  /\ Done(p, "deleteTransaction")
  /\ req[p].result = OK
  /\ req[p].follows
  /\ req[p].transaction.type \in {EXPENSE, INCOME}

\* C7: creating an expense or income and then deleting it, with nothing in
\* between, returns every account to its state before the create and leaves
\* no row of that transaction.
C7_CreateDeleteRoundTrip ==
  \A p \in Procs :
    RoundTrip(p) =>
      /\ accounts = req[p].createPre
      /\ req[p].dto.id \notin DOMAIN transactions

\* a finished createTransaction of an expense or a transfer out of an account
\* of the caller that is not a credit account, for more than its balance
Overdraft(p) ==
  /\ Done(p, "createTransaction")
  /\ req[p].dto.type \in {EXPENSE, TRANSFER}
  /\ req[p].dto.accountId \in DOMAIN req[p].pre.accounts
  /\ LET source == req[p].pre.accounts[req[p].dto.accountId]
     IN /\ source.userId = req[p].userId
        /\ source.accountType # CREDIT
        /\ req[p].dto.amount > source.balance

\* a finished createTransaction of an expense, without category, on a credit
\* account of the caller
CreditExpense(p) ==
  /\ Done(p, "createTransaction")
  /\ req[p].dto.type = EXPENSE
  /\ req[p].dto.categoryId = NULL
  /\ req[p].dto.accountId \in DOMAIN req[p].pre.accounts
  /\ LET source == req[p].pre.accounts[req[p].dto.accountId]
     IN source.userId = req[p].userId /\ source.accountType = CREDIT

\* C8: an expense or transfer out that exceeds the balance of a non-credit
\* source account is rejected (a bad request), changes no balance and creates
\* no row; on a credit account the expense is accepted.
C8_OverdraftRejected ==
  \A p \in Procs :
    /\ Overdraft(p) =>
         /\ req[p].result = BadRequest
         /\ accounts = req[p].pre.accounts
         /\ transactions = req[p].pre.transactions
    /\ CreditExpense(p) => req[p].result = OK

AccountByIdOps ==
  {"getAccountById", "updateAccount", "updateAccountBalance",
   "deactivateAccount", "activateAccount", "deleteAccount",
   "getAccountTransactions", "createTransaction"}
TransactionByIdOps == {"getTransaction", "updateTransaction", "deleteTransaction"}
CategoryByIdOps == {"getCategory", "updateCategory", "deleteCategory"}

\* row id of table `rows` exists and belongs to a user other than userId
Foreign(rows, id, userId) == id \in DOMAIN rows /\ rows[id].userId # userId

\* call r addresses, by id, an entity that existed when the call started and
\* belongs to another user
ForeignTarget(r) ==
  \/ r.op \in AccountByIdOps /\ Foreign(r.pre.accounts, r.dto.accountId, r.userId)
  \/ /\ r.op = "createTransaction"
     /\ r.dto.type = TRANSFER
     /\ Foreign(r.pre.accounts, r.dto.toAccountId, r.userId)
  \/ r.op \in TransactionByIdOps /\ Foreign(r.pre.transactions, r.dto.id, r.userId)
  \/ r.op \in CategoryByIdOps /\ Foreign(r.pre.categories, r.dto.categoryId, r.userId)

\* call r addresses, by id, an entity that did not exist when the call started
MissingTarget(r) ==
  \/ r.op \in AccountByIdOps /\ r.dto.accountId \notin DOMAIN r.pre.accounts
  \/ /\ r.op = "createTransaction"
     /\ r.dto.type = TRANSFER
     /\ r.dto.toAccountId # NULL
     /\ r.dto.toAccountId \notin DOMAIN r.pre.accounts
     /\ ~Foreign(r.pre.accounts, r.dto.accountId, r.userId)
  \/ r.op \in TransactionByIdOps /\ r.dto.id \notin DOMAIN r.pre.transactions
  \/ r.op \in CategoryByIdOps /\ r.dto.categoryId \notin DOMAIN r.pre.categories

\* C9: every by-id read, update or delete of an account, transaction or
\* category that belongs to another user fails with ForbiddenException and
\* leaves every row of every table as it was.
C9_OwnershipIsolation ==
  \A p \in Procs :
    (req[p].pc = "done" /\ ForeignTarget(req[p])) =>
      /\ req[p].result = Forbidden
      /\ Snapshot = req[p].pre

\* u2 asked to delete a transaction that u1 had created, and was refused
C9_Witness ==
  \E p \in Procs :
    /\ Done(p, "deleteTransaction")
    /\ req[p].userId = "u2"
    /\ req[p].dto.id \in DOMAIN transactions
    /\ transactions[req[p].dto.id].userId = "u1"
    /\ req[p].result = Forbidden

\* C10: every by-id operation checks existence before ownership: an id that
\* no row has fails with NotFoundException, and ForbiddenException is raised
\* only for an entity that exists and belongs to another user.
C10_ExistenceBeforeOwnership ==
  \A p \in Procs :
    req[p].pc = "done" =>
      /\ MissingTarget(req[p]) => req[p].result = NotFound
      /\ req[p].result = Forbidden => ForeignTarget(req[p])

\* account id is no account of userId in the table accts
NotOwned(accts, id, userId) ==
  id \notin DOMAIN accts \/ accts[id].userId # userId

\* a createTransaction call, started or finished, whose accountId is not an
\* account of the caller, or which is a transfer whose toAccountId is not
CreateOnForeignAccount(p) ==
  /\ req[p].op = "createTransaction"
  /\ \/ NotOwned(req[p].pre.accounts, req[p].dto.accountId, req[p].userId)
     \/ /\ req[p].dto.type = TRANSFER
        /\ req[p].dto.toAccountId # NULL
        /\ NotOwned(req[p].pre.accounts, req[p].dto.toAccountId, req[p].userId)

\* C11: createTransaction on an account that is not the caller's, or a
\* transfer to one, fails with ForbiddenException; no balance is changed and
\* no row is created at any point of the call.
C11_CreateDeniedBeforeAnyChange ==
  \A p \in Procs :
    CreateOnForeignAccount(p) =>
      /\ accounts = req[p].pre.accounts
      /\ transactions = req[p].pre.transactions
      /\ req[p].pc = "done" => req[p].result = Forbidden

\* u1 asked for a transfer from the own account a1 to a3, the account of u2,
\* and was refused
C11_Witness ==
  \E p \in Procs :
    /\ Done(p, "createTransaction")
    /\ req[p].userId = "u1"
    /\ req[p].dto.type = TRANSFER
    /\ req[p].dto.accountId = "a1"
    /\ req[p].dto.toAccountId = "a3"
    /\ req[p].result = Forbidden

\* a createTransaction call, started or finished, for a transfer that names
\* no destination account
TransferWithoutDestination(p) ==
  /\ req[p].op = "createTransaction"
  /\ req[p].dto.type = TRANSFER
  /\ req[p].dto.toAccountId = NULL

\* C12: a transfer request without toAccountId fails with BadRequestException
\* (the ownership check of accountId comes first: on an account that is not
\* the caller's the failure is ForbiddenException); no balance is changed and
\* no row is created.
C12_TransferNeedsDestination ==
  \A p \in Procs :
    TransferWithoutDestination(p) =>
      /\ accounts = req[p].pre.accounts
      /\ transactions = req[p].pre.transactions
      /\ req[p].pc = "done" =>
           req[p].result =
             IF NotOwned(req[p].pre.accounts, req[p].dto.accountId,
                         req[p].userId)
               THEN Forbidden ELSE BadRequest

\* a transfer from the own account a1 without destination was refused as a
\* bad request
C12_Witness ==
  \E p \in Procs :
    /\ Done(p, "createTransaction")
    /\ TransferWithoutDestination(p)
    /\ req[p].dto.accountId = "a1"
    /\ req[p].result = BadRequest

\* C13: every stored transaction of type transfer has toAccountId and
\* fromAccountId set, fromAccountId equal to accountId, and both accounts are
\* accounts of the user of the transaction; every stored income or expense
\* has neither, whatever the request carried.
C13_TransferFieldsInvariant ==
  \A i \in DOMAIN transactions :
    LET t == transactions[i]
    IN IF t.type = TRANSFER
         THEN /\ t.toAccountId # NULL
              /\ t.fromAccountId # NULL
              /\ t.fromAccountId = t.accountId
              /\ ~NotOwned(accounts, t.accountId, t.userId)
              /\ ~NotOwned(accounts, t.toAccountId, t.userId)
         ELSE /\ t.toAccountId = NULL
              /\ t.fromAccountId = NULL

\* a transfer is stored, and an income whose request carried a toAccountId
\* has just been stored
C13_Witness ==
  /\ \E i \in DOMAIN transactions : transactions[i].type = TRANSFER
  /\ \E p \in Procs :
       /\ Done(p, "createTransaction")
       /\ req[p].result = OK
       /\ req[p].dto.type = INCOME
       /\ req[p].dto.toAccountId = "a2"
       /\ req[p].newId \in DOMAIN transactions

\* a deleteTransaction call, started or finished, of an id that no
\* transaction had, or of a transaction of another user, when the call began
DeleteOfMissingOrForeign(p) ==
  /\ req[p].op = "deleteTransaction"
  /\ \/ req[p].dto.id \notin DOMAIN req[p].pre.transactions
     \/ Foreign(req[p].pre.transactions, req[p].dto.id, req[p].userId)

\* C14: deleteTransaction of an id that does not exist fails with
\* NotFoundException, of a transaction of another user with
\* ForbiddenException; no balance is changed and no row is removed.
C14_DeleteRefused ==
  \A p \in Procs :
    DeleteOfMissingOrForeign(p) =>
      /\ accounts = req[p].pre.accounts
      /\ transactions = req[p].pre.transactions
      /\ req[p].pc = "done" =>
           req[p].result =
             IF req[p].dto.id \in DOMAIN req[p].pre.transactions
               THEN Forbidden ELSE NotFound

\* while a transaction exists, the delete of an id that no transaction has
\* was answered with NotFoundException
C14_Witness ==
  \E p \in Procs :
    /\ Done(p, "deleteTransaction")
    /\ transactions # <<>>
    /\ req[p].dto.id \notin DOMAIN transactions
    /\ req[p].result = NotFound

\* the fields of a transaction that no update may change
Financial(t) ==
  [amount |-> t.amount, type |-> t.type, userId |-> t.userId,
   accountId |-> t.accountId, toAccountId |-> t.toAccountId,
   fromAccountId |-> t.fromAccountId]

\* C15: updateTransaction changes at most categoryId and transactionDate
\* (and the description) of its target: the amount, type, userId, accountId,
\* toAccountId and fromAccountId of every transaction, the set of
\* transactions, every other transaction and every account stay as they were.
C15_UpdateFrame ==
  \A p \in Procs :
    req[p].op = "updateTransaction" =>
      /\ accounts = req[p].pre.accounts
      /\ DOMAIN transactions = DOMAIN req[p].pre.transactions
      /\ \A i \in DOMAIN transactions :
           /\ Financial(transactions[i]) = Financial(req[p].pre.transactions[i])
           /\ i # req[p].dto.id => transactions[i] = req[p].pre.transactions[i]

\* an update has moved a transaction to another category or date
C15_Witness ==
  \E p \in Procs :
    /\ Done(p, "updateTransaction")
    /\ req[p].result = OK
    /\ transactions # req[p].pre.transactions

\* a finished updateAccountBalance on an account of the caller
BalanceSet(p) ==
  /\ Done(p, "updateAccountBalance")
  /\ ~NotOwned(req[p].pre.accounts, req[p].dto.accountId, req[p].userId)

\* C16: updateAccountBalance refuses a negative balance on an account that is
\* not a credit account and leaves the stored balance as it was; otherwise
\* the stored balance becomes exactly the requested value, a negative one on
\* a credit account included, and nothing else changes.
C16_SetBalanceChecked ==
  \A p \in Procs :
    BalanceSet(p) =>
      LET a == req[p].dto.accountId
          b == req[p].dto.balance
      IN IF b < 0 /\ req[p].pre.accounts[a].accountType # CREDIT
           THEN /\ req[p].result = BadRequest
                /\ accounts = req[p].pre.accounts
           ELSE /\ req[p].result = OK
                /\ accounts = [req[p].pre.accounts EXCEPT ![a].balance = b]

\* the balance of the credit account a2 was set to a negative value
C16_Witness ==
  \E p \in Procs :
    /\ BalanceSet(p)
    /\ req[p].dto.accountId = "a2"
    /\ req[p].dto.balance < 0
    /\ req[p].result = OK
    /\ accounts["a2"].balance = req[p].dto.balance

\* the window of month m: from its first instant to the first instant of its
\* last second, both included
MonthWindow(m) ==
  { t \in Instants :
      /\ m * MonthLength <= t
      /\ t < (m + 1) * MonthLength
      /\ (m + 1) * MonthLength - t >= TicksPerSecond }

\* the transactions of userId of the given type dated in the window of m
WindowRows(txs, userId, type, m) ==
  { i \in DOMAIN txs :
      /\ txs[i].userId = userId
      /\ txs[i].type = type
      /\ txs[i].transactionDate \in MonthWindow(m) }

\* C17: getMonthlyStats returns as income the sum of the amounts of the
\* caller's income transactions dated in the window of the month, as expense
\* that of the caller's expense transactions in the window, and as net their
\* difference; transfers and the transactions of other users count in
\* neither, and a month without transactions gives zeros, not an error.
C17_MonthlyTotals ==
  \A p \in Procs :
    Done(p, "getMonthlyStats") =>
      /\ req[p].result = OK
      /\ req[p].stats.income =
           SumAmounts(transactions,
                      WindowRows(transactions, req[p].userId, INCOME,
                                 req[p].dto.month))
      /\ req[p].stats.expense =
           SumAmounts(transactions,
                      WindowRows(transactions, req[p].userId, EXPENSE,
                                 req[p].dto.month))
      /\ req[p].stats.net = req[p].stats.income - req[p].stats.expense

\* the totals of a month were computed while the caller had an income and a
\* transfer dated in its window
C17_Witness ==
  \E p \in Procs :
    /\ Done(p, "getMonthlyStats")
    /\ req[p].stats.income > 0
    /\ WindowRows(transactions, req[p].userId, TRANSFER, req[p].dto.month) # {}

\* C18: getMonthlyStats is read-only and repeatable: it changes no account,
\* transaction or category, and a call that directly follows a call with the
\* same arguments returns the same totals.
C18_StatsReadOnlyRepeatable ==
  \A p \in Procs :
    req[p].op = "getMonthlyStats" =>
      /\ Snapshot = req[p].pre
      /\ (req[p].pc = "done" /\ req[p].repeats) =>
           req[p].stats = req[p].prevStats

\* the totals of a month with an income were asked for twice in a row
C18_Witness ==
  \E p \in Procs :
    /\ Done(p, "getMonthlyStats")
    /\ req[p].repeats
    /\ req[p].stats.income > 0
    /\ req[p].prevStats.income > 0

\* the elements of a list
Range(s) == { s[j] : j \in DOMAIN s }

\* the transactions of userId that pass every filter the request r carries
Selected(txs, userId, r) ==
  { i \in DOMAIN txs :
      /\ txs[i].userId = userId
      /\ \/ r.accountId = NULL
         \/ txs[i].accountId = r.accountId
         \/ txs[i].toAccountId = r.accountId
      /\ r.categoryId = NULL \/ txs[i].categoryId = r.categoryId
      /\ r.type = NULL \/ txs[i].type = r.type
      /\ r.dateFrom = NoDate \/ r.dateFrom <= txs[i].transactionDate
      /\ r.dateTo = NoDate \/ txs[i].transactionDate <= r.dateTo }

\* list holds each transaction of ids once, latest transactionDate first
ListsLatestFirst(list, txs, ids) ==
  /\ Range(list) = ids
  /\ Len(list) = Cardinality(ids)
  /\ \A j, k \in DOMAIN list :
       j < k => txs[list[j]].transactionDate >= txs[list[k]].transactionDate

\* C19: getUserTransactions returns exactly the caller's transactions that
\* pass every supplied filter (the account filter matching accountId or
\* toAccountId, the date bounds inclusive), latest first;
\* getAccountTransactions returns the same list as the account filter alone
\* for an account of the caller and fails with ForbiddenException for an
\* account of another user.
C19_FilteredHistory ==
  \A p \in Procs :
    /\ Done(p, "getUserTransactions") =>
         /\ req[p].result = OK
         /\ ListsLatestFirst(req[p].list, transactions,
                             Selected(transactions, req[p].userId, req[p].dto))
    /\ Done(p, "getAccountTransactions") =>
         IF NotOwned(accounts, req[p].dto.accountId, req[p].userId)
           THEN req[p].result = Forbidden /\ req[p].list = <<>>
           ELSE /\ req[p].result = OK
                /\ ListsLatestFirst(req[p].list, transactions,
                     Selected(transactions, req[p].userId, req[p].dto))

\* the history of the account a2 shows a transfer of which a2 is the
\* destination
C19_Witness ==
  \E p \in Procs :
    /\ Done(p, "getUserTransactions")
    /\ req[p].dto.accountId = "a2"
    /\ \E j \in DOMAIN req[p].list :
         /\ transactions[req[p].list[j]].type = TRANSFER
         /\ transactions[req[p].list[j]].toAccountId = "a2"

\* C20: every stored transaction has an amount > 0: a create request whose
\* amount is zero or negative is refused as a bad request, changes no balance
\* and creates no row.
C20_AmountPositive ==
  /\ \A i \in DOMAIN transactions : transactions[i].amount > 0
  /\ \A p \in Procs :
       (req[p].op = "createTransaction" /\ req[p].dto.amount <= 0) =>
         /\ accounts = req[p].pre.accounts
         /\ transactions = req[p].pre.transactions
         /\ req[p].pc = "done" => req[p].result = BadRequest

\* while a transaction exists, a create request of the owner of a1 with
\* amount zero was refused
C20_Witness ==
  \E p \in Procs :
    /\ Done(p, "createTransaction")
    /\ req[p].userId = "u1"
    /\ req[p].dto.accountId = "a1"
    /\ req[p].dto.amount = 0
    /\ req[p].result = BadRequest
    /\ transactions # <<>>

\* C21: in every reachable state no two active accounts of one user have the
\* same stored name.
C21_ActiveAccountNamesUnique ==
  \A a, b \in DOMAIN accounts :
    (/\ a # b
     /\ accounts[a].isActive /\ accounts[b].isActive
     /\ accounts[a].userId = accounts[b].userId)
    => accounts[a].name # accounts[b].name

\* C22: in every reachable state no two active categories of one user have
\* names that are equal ignoring case.
C22_ActiveCategoryNamesUnique ==
  \A c, d \in DOMAIN categories :
    (/\ c # d
     /\ categories[c].isActive /\ categories[d].isActive
     /\ categories[c].userId = categories[d].userId)
    => Lower(categories[c].name) # Lower(categories[d].name)

\* a deleteAccount or deactivateAccount call of p
Deactivation(p) == req[p].op \in {"deleteAccount", "deactivateAccount"}

\* C23: no call removes an account row, and a deleteAccount or
\* deactivateAccount call changes nothing until it succeeds, and then has
\* set isActive of its account to false and left every other field of every
\* account and every transaction row as it was.
C23_SoftDeleteOnly ==
  \A p \in Procs :
    /\ req[p].pc # "idle" => DOMAIN req[p].pre.accounts \subseteq DOMAIN accounts
    /\ Deactivation(p) =>
         /\ transactions = req[p].pre.transactions
         /\ IF req[p].pc = "done" /\ req[p].result = OK
              THEN accounts = [req[p].pre.accounts EXCEPT
                                 ![req[p].dto.accountId].isActive = FALSE]
              ELSE accounts = req[p].pre.accounts

\* u1 has deleted the active account a1, which has a transaction
C23_Witness ==
  \E p \in Procs :
    /\ Done(p, "deleteAccount")
    /\ req[p].result = OK
    /\ req[p].dto.accountId = "a1"
    /\ req[p].pre.accounts["a1"].isActive
    /\ ~accounts["a1"].isActive
    /\ \E i \in DOMAIN transactions : transactions[i].accountId = "a1"

\* the balance write that the deleteTransaction call of p is about to make:
\* whether there is one, its account and its value
ReversalWrite(p) ==
  req[p].pc \in {"dt_updateSource", "dt_updateDest", "dt_updateBalance"}
ReversalTarget(p) ==
  IF req[p].pc = "dt_updateDest" THEN req[p].transaction.toAccountId
  ELSE req[p].transaction.accountId
ReversalBalance(p) ==
  IF req[p].pc = "dt_updateSource"
    THEN ReverseSourceBalance(req[p].account, req[p].transaction.amount)
  ELSE IF req[p].pc = "dt_updateDest"
    THEN ReverseDestBalance(req[p].toAccount, req[p].transaction.amount)
    ELSE DeleteNewBalance(req[p].account, req[p].transaction)

\* the write cannot succeed: its row is gone, or the value breaks the rule
\* that only a credit account goes below zero
ReversalFails(p) ==
  /\ ReversalWrite(p)
  /\ \/ ReversalTarget(p) \notin DOMAIN accounts
     \/ updateBalanceThrows(AccountFindById(accounts, ReversalTarget(p)),
                            ReversalBalance(p))

\* p takes a step
Steps(p) == req'[p].pc # req[p].pc

\* C24: when a reversal write of a deleteTransaction call fails, the call ends
\* there with an error: it does not delete the transaction row, it writes no
\* balance, and a source that it had already credited back is at the balance
\* it had before.
C24_DeleteOnlyAfterReversal ==
  [][\A p \in Procs :
       (ReversalFails(p) /\ Steps(p)) =>
         /\ req'[p].pc = "done"
         /\ req'[p].result # OK
         /\ transactions' = transactions
         /\ DOMAIN accounts' = DOMAIN accounts
         /\ \A a \in DOMAIN accounts :
              accounts'[a].balance =
                IF req[p].pc = "dt_updateDest" /\ a = req[p].transaction.accountId
                  THEN req[p].account.balance
                  ELSE accounts[a].balance]_vars

\* the deleteTransaction call of p, which no other call overlapped, has made
\* its balance writes for row t and is about to delete it
Reversed(p, t) ==
  /\ req[p].op = "deleteTransaction"
  /\ req[p].pc = "dt_delete"
  /\ ~req[p].overlapped
  /\ req[p].transaction = t

\* C25: once deleteTransaction has reversed a transfer, the source account is
\* amount above its balance at the start of the call, also when the
\* destination account does not exist any more, and a destination account
\* that exists is amount below.
C25_TransferReversal ==
  \A p \in Procs :
    (Reversed(p, req[p].transaction) /\ isTransfer(req[p].transaction)) =>
      LET t == req[p].transaction
          before == req[p].pre.accounts
      IN /\ t.accountId \in DOMAIN accounts =>
              accounts[t.accountId].balance
                = before[t.accountId].balance + t.amount
         /\ t.toAccountId \in DOMAIN accounts =>
              accounts[t.toAccountId].balance
                = before[t.toAccountId].balance - t.amount

\* the deleteTransaction call of p has found its transaction and is at step
\* pc, and the primary account of the transaction is missing
PrimaryMissing(p, pc) ==
  /\ req[p].op = "deleteTransaction"
  /\ req[p].pc = pc
  /\ req[p].transaction # NoTransaction
  /\ IF pc = "dt_findAccount"
       THEN req[p].transaction.accountId \notin DOMAIN accounts
       ELSE req[p].account = NoAccount

\* C26: a deleteTransaction call that finds no row for the primary account of
\* its transaction goes on to the removal of the transaction row without a
\* balance write, and ends without error with the row removed.
C26_VanishedPrimarySkipsReversal ==
  [][\A p \in Procs :
       /\ (PrimaryMissing(p, "dt_findAccount") /\ Steps(p)) =>
            /\ req'[p].pc = "dt_delete"
            /\ accounts' = accounts
            /\ transactions' = transactions
       /\ (PrimaryMissing(p, "dt_delete") /\ Steps(p)) =>
            /\ req'[p].pc = "done"
            /\ req'[p].result = OK
            /\ accounts' = accounts
            /\ req[p].dto.id \notin DOMAIN transactions']_vars

\* such a call has ended
C26_Witness ==
  \E p \in Procs :
    /\ Done(p, "deleteTransaction")
    /\ req[p].result = OK
    /\ req[p].transaction # NoTransaction
    /\ req[p].transaction.accountId \notin DOMAIN accounts
    /\ req[p].account = NoAccount
    /\ req[p].dto.id \notin DOMAIN transactions

\* the balance write that the createTransaction or deleteTransaction call of
\* p is about to make goes to an account whose row is gone
WriteToVanished(p) ==
  \/ /\ req[p].pc \in {"ct_updateSource", "ct_updateBalance"}
     /\ req[p].dto.accountId \notin DOMAIN accounts
  \/ /\ req[p].pc = "ct_updateDest"
     /\ req[p].dto.toAccountId \notin DOMAIN accounts
  \/ /\ ReversalWrite(p)
     /\ ReversalTarget(p) \notin DOMAIN accounts

\* C27: a createTransaction or deleteTransaction call whose balance write
\* finds the account gone ends there with NotFound: it saves or deletes no
\* transaction row and changes no balance.
C27_VanishedAccountStopsCall ==
  [][\A p \in Procs :
       (WriteToVanished(p) /\ Steps(p)) =>
         /\ req'[p].pc = "done"
         /\ req'[p].result = NotFound
         /\ transactions' = transactions
         /\ accounts' = accounts]_vars

\* both processes have ended a deleteTransaction call for the transaction
\* that both had found, the only one ever created, and no call is in progress
DeletedTwice ==
  /\ Quiescent
  /\ nextId = 2
  /\ \A p \in Procs :
       /\ Done(p, "deleteTransaction")
       /\ req[p].dto.id = 1
       /\ req[p].transaction # NoTransaction

\* C29: after two overlapping deleteTransaction calls for one transaction,
\* with every account still there, the balances are those before the
\* transaction was created: its effect is reversed once.
C29_ReversedOnce ==
  (DeletedTwice /\ DOMAIN accounts = AccountIds) =>
    \A a \in AccountIds : accounts[a].balance = initialBalance[a]

\* the sum of the balances of the accounts of userId
RECURSIVE SumBalances(_, _)
SumBalances(accts, ids) ==
  IF ids = {} THEN 0
  ELSE LET a == CHOOSE x \in ids : TRUE
       IN accts[a].balance + SumBalances(accts, ids \ {a})
OwnerTotal(accts, userId) ==
  SumBalances(accts, { a \in DOMAIN accts : accts[a].userId = userId })

\* C28: a createTransaction call of type transfer that has ended leaves the
\* sum of the balances of the caller's accounts as it was, also when the
\* transfer is from an account to itself.
C28_TransferKeepsTotal ==
  \A p \in Procs :
    (Done(p, "createTransaction") /\ req[p].dto.type = TRANSFER) =>
      OwnerTotal(accounts, req[p].userId)
        = OwnerTotal(req[p].pre.accounts, req[p].userId)

\* every call so far was a createTransaction that saved a row or a
\* deleteTransaction that removed one, no call is in progress and every row
\* that was created is deleted again: nextId - 1 rows were created, each was
\* removed by a call of its own, and there were no more calls than that
AllCreatedDeleted ==
  /\ Quiescent
  /\ nextId > 1
  /\ transactions = <<>>
  /\ calls = 2 * (nextId - 1)

====
